---------------------------- MODULE Spec2Model ----------------------------
(***************************************************************************)
(* A model of NanoParticleTools' heterogeneous graph representation module *)
(* (machine_learning/models/hetero/intra_inter_model.py).                  *)
(*                                                                         *)
(* Tensors are sequences (rows) of sequences (channels) of integers.       *)
(* Real arithmetic is modelled in integer fixed point: concentrations are  *)
(* in percent, volumes in units of pi/3, divisions are floor divisions.    *)
(* A floating-point row that holds a non-finite value (x/0) is tracked in  *)
(* a separate mask, because IEEE inf/nan have no integer counterpart.      *)
(* Index tensors keep the 0-based values of the source; sequences are      *)
(* 1-based, so every lookup goes through At/Wrap.                          *)
(***************************************************************************)
EXTENDS Integers, Sequences, FiniteSets, TLC

VARIABLES
    cfg,        \* hyper-parameters fixed by __init__
    params,     \* learned parameters (a seed that determines every weight)
    training,   \* nn.Module.training
    bn,         \* running statistics of the three BatchNorm1d layers
    pool,       \* the inputs the caller may pass to forward
    pc,         \* position inside forward
    data,       \* the graphs the caller holds for the running call
    inp,        \* the thirteen arguments of the running forward call
    x_dict,     \* intermediate_x_dict
    nonfinite,  \* node type -> rows of x_dict that hold inf/nan
    cond,       \* conditioning vectors computed so far, per pair branch
    round,      \* number of message-passing rounds done
    out,        \* the value forward returned (pooled rows), or NoOut
    outNonfinite, \* rows of out that hold inf/nan
    last,       \* the previous completed call: its input, mode and output
    calls,      \* number of forward calls started
    head,       \* HeteroDCVModel: its construction, the running method, y_hat
    aug,        \* AugmentHeteroDCVModel: the running method and its locals
    proc,       \* TransformerFeatureProcessor.process_doc: its locals
    run,        \* training.py: a train_one_model / train_uv_model call
    dgm         \* discretized_graph.DiscreteGraphModel.__init__: its locals

vars == <<cfg, params, training, bn, pool, pc, data, inp, x_dict, nonfinite, cond,
          round, out, outNonfinite, last, calls, head, aug, proc, run, dgm>>

----------------------------------------------------------------------------
(* Bounds of the model *)

EmbedDim == 2
NSigma == 2
MaxRounds == 2
MaxCalls == 2
MaxSeed == 1

----------------------------------------------------------------------------
(* Integer helpers *)

Max(a, b) == IF a >= b THEN a ELSE b
Min(a, b) == IF a <= b THEN a ELSE b
Abs(a) == IF a >= 0 THEN a ELSE -a
Clamp(x, lo, hi) == Max(lo, Min(x, hi))

RECURSIVE Newton(_, _)
Newton(v, x) ==
    CHOOSE r \in {IF y >= x THEN x ELSE Newton(v, y) :
                    y \in {(x + (v \div x)) \div 2}} : TRUE

\* floor of the square root
ISqrt(v) == IF v <= 0 THEN 0 ELSE Newton(v, v)

RECURSIVE SumUpTo(_, _)
SumUpTo(s, n) == IF n = 0 THEN 0 ELSE s[n] + SumUpTo(s, n - 1)
SumSeq(s) == CHOOSE r \in {SumUpTo(t, Len(t)) : t \in {s \o <<>>}} : TRUE

RECURSIVE Flatten(_)
Flatten(ss) == IF ss = <<>> THEN <<>> ELSE Head(ss) \o Flatten(Tail(ss))

Range(s) == {s[i] : i \in DOMAIN s}

Zeros(n) == [c \in 1..n |-> 0]

\* all permutations of 1..n, as sequences
Perms(n) == {p \in [1..n -> 1..n] : \A i, j \in 1..n : p[i] = p[j] => i = j}

----------------------------------------------------------------------------
(* torch indexing: tensor[i] accepts -n <= i < n, a negative index counts  *)
(* from the end, anything else raises IndexError.                          *)

InRange(i, n) == -n <= i /\ i < n
Wrap(i, n) == IF i < 0 THEN i + n + 1 ELSE i + 1
At(s, i) == s[Wrap(i, Len(s))]

\* torch.index_select / scatter (used by the convolutions): no negative index
InRangeStrict(i, n) == 0 <= i /\ i < n

\* TLC evaluates a function constructor element by element, at every use:
\* the same value with its elements evaluated once (a value, a tensor as a
\* sequence of rows, a dictionary of tensors)
Value(v) == CHOOSE y \in {v} : TRUE
Tensor(X) == [r \in 1..Len(X) |-> X[r] \o <<>>] \o <<>>
Dict(x) == [t \in DOMAIN x |-> Tensor(x[t])] @@ <<>>

----------------------------------------------------------------------------
(* Learned parameters.  Every weight is a small integer determined by the  *)
(* seed p, the layer's tag and the position in the weight tensor.          *)

Hash(p, tag, o, i) == (3 * p + 7 * tag + (tag \div 5) + 2 * o + 3 * i + o * i) % 4
W(p, tag, o, i) == IF Hash(p, tag, o, i) < 2 THEN Hash(p, tag, o, i) - 2
                   ELSE Hash(p, tag, o, i) - 1
B(p, tag, o) == ((2 * p + 3 * tag + o) % 5) - 2

Linear(p, tag, nout, x) ==
    [o \in 1..nout |->
        SumSeq([i \in 1..Len(x) |-> W(p, tag, o, i) * x[i]]) + B(p, tag, o)]

\* nn.Embedding(num, dim): row idx of the table
Embedding(p, tag, dim, idx) == [c \in 1..dim |-> W(p, tag, idx + 1, c) + idx]

\* torch.nn.functional.silu, x * sigmoid(x), in its piecewise integer form
SiLU(x) == (x * Clamp(x + 3, 0, 6)) \div 6

SiLUVec(v) == [c \in DOMAIN v |-> SiLU(v[c])]

\* F.leaky_relu with PyG's negative_slope = 0.2
LeakyReLU(z) == IF z >= 0 THEN z ELSE z \div 5

\* NonLinearMLP(n_in, n_out, hidden, ...): Linear, activation, ..., Linear
FiLMHidden == <<2, 2>>

RECURSIVE MLPFrom(_, _, _, _, _)
MLPFrom(p, tag, hidden, nout, x) ==
    IF hidden = <<>> THEN Linear(p, tag, nout, x)
    ELSE MLPFrom(p, tag + 1, Tail(hidden), nout,
                 SiLUVec(Linear(p, tag, Head(hidden), x)))

NonLinearMLP(p, tag, hidden, nout, x) == MLPFrom(p, tag, hidden, nout, x)

\* FiLMLayer(conditioning_dim, n_channels, [16, 16]): the MLP maps the
\* context to 2 * n_channels values, split into scale and shift.
FiLMLayer(p, tag, emb, ctx) ==
    LET D == Len(emb)
        gen == NonLinearMLP(p, tag, FiLMHidden, 2 * D, ctx)
    IN  [c \in 1..D |-> emb[c] * (1 + gen[c]) + gen[D + c]]

----------------------------------------------------------------------------
(* nn.BatchNorm1d.  A layer's buffers: running_mean, running_var,          *)
(* num_batches_tracked; nonfinite says the running statistics hold nan.    *)
(* The normalised values are kept in units of 1/4.                         *)

BNInit(width) ==
    [running_mean |-> Zeros(width),
     running_var |-> [c \in 1..width |-> 1],
     num_batches_tracked |-> 0,
     nonfinite |-> FALSE]

BNWeight(p, tag, c) == 1 + ((p + tag + c) % 2)
BNBias(p, tag, c) == B(p, tag + 1, c)

\* sqrt(var + eps): eps keeps the denominator positive
Std(v) == Max(1, ISqrt(v))

BatchMean(X, c) == SumSeq([r \in 1..Len(X) |-> X[r][c]]) \div Len(X)
SqDev(X, c) ==
    LET mean == BatchMean(X, c)
    IN  SumSeq([r \in 1..Len(X) |-> (X[r][c] - mean) * (X[r][c] - mean)])

\* a faulty variant: an empty batch is refused as well
RaisesBelowTwo(train, n) == train /\ n <= 1

\* F.batch_norm's _verify_batch_size: exactly one value per channel raises
BatchNormRaises(train, n) == train /\ n = 1

\* a faulty variant: the statistics of the batch are used in either mode
AlwaysBatchStats(train) == TRUE

\* batch statistics are used in training mode, running statistics otherwise
UseBatchStats(train) == train

BatchNormOut(p, tag, layer, train, X) ==
    IF Len(X) = 0 THEN <<>>
    ELSE LET width == Len(layer.running_mean)
             mean == [c \in 1..width |->
                        IF UseBatchStats(train) THEN BatchMean(X, c)
                        ELSE layer.running_mean[c]]
             var == [c \in 1..width |->
                        IF UseBatchStats(train) THEN SqDev(X, c) \div Len(X)
                        ELSE layer.running_var[c]]
         IN  [r \in 1..Len(X) |->
                [c \in 1..width |->
                    ((4 * (X[r][c] - mean[c]) * BNWeight(p, tag, c)) \div Std(var[c]))
                    + BNBias(p, tag, c)]]

\* rows of the output that hold inf/nan, given the rows of the input that do
BatchNormNonfinite(layer, train, n, bad) ==
    IF n = 0 THEN {}
    ELSE IF UseBatchStats(train) THEN (IF bad = {} THEN {} ELSE 1..n)
    ELSE IF layer.nonfinite THEN 1..n
    ELSE bad

\* faulty variants: the running statistics are updated in either mode, or
\* in evaluation mode only
TracksAlways(train) == TRUE
TracksInEval(train) == ~train

\* whether this forward updates the running statistics
TracksStats(train) == train

\* the buffers after the call (momentum 0.1, unbiased variance)
BatchNormNext(layer, train, X, bad) ==
    IF ~TracksStats(train) THEN layer
    ELSE IF Len(X) <= 1
    THEN [layer EXCEPT !.num_batches_tracked = @ + 1]
    ELSE LET width == Len(layer.running_mean)
         IN  [running_mean |->
                 [c \in 1..width |->
                     (9 * layer.running_mean[c] + BatchMean(X, c)) \div 10],
              running_var |->
                 [c \in 1..width |->
                     (9 * layer.running_var[c]
                        + (SqDev(X, c) \div (Len(X) - 1))) \div 10],
              num_batches_tracked |-> layer.num_batches_tracked + 1,
              nonfinite |-> layer.nonfinite \/ bad # {}]

----------------------------------------------------------------------------
(* Node types and the four relations, in the order __init__ builds them *)

NodeTypes == {"dopant", "interaction", "intraaction"}
RelDI == <<"dopant", "coupled_to", "interaction">>
RelID == <<"interaction", "coupled_to", "dopant">>
RelDA == <<"dopant", "coupled_to", "intraaction">>
RelAD == <<"intraaction", "coupled_to", "dopant">>
Rels == <<RelDI, RelID, RelDA, RelAD>>
Src(rel) == rel[1]
Dst(rel) == rel[3]

\* the tag of the convolution of relation number r in round k (1-based)
ConvTag(k, r) == 20 + 16 * k + 4 * r

(* gnn.GATv2Conv(embed_dim, embed_dim, concat=False, add_self_loops=False) *)
(* on a bipartite pair (x_src, x_dst): one head; the attention of target i *)
(* is normalised over the edges that enter i; a target without incoming    *)
(* edges gets only the bias.  exp() is modelled by a positive, monotone    *)
(* integer weight.                                                         *)
AttnWeight(score) == 1 + Clamp(score, 0, 3)

GATv2Conv(p, tag, xs, xd, el) ==
    LET xl == [j \in 1..Len(xs) |-> Linear(p, tag, EmbedDim, xs[j])]
        xr == [i \in 1..Len(xd) |-> Linear(p, tag + 1, EmbedDim, xd[i])]
        score(e) == SumSeq([c \in 1..EmbedDim |->
                        W(p, tag + 3, 1, c)
                          * LeakyReLU(xl[e[1] + 1][c] + xr[e[2] + 1][c])])
    IN  [i \in 1..Len(xd) |->
            LET es == SelectSeq(el, LAMBDA e : e[2] = i - 1)
                ws == [k \in 1..Len(es) |-> AttnWeight(score(es[k]))]
                tot == SumSeq(ws)
            IN  [c \in 1..EmbedDim |->
                    (IF tot = 0 THEN 0
                     ELSE SumSeq([k \in 1..Len(es) |->
                                    ws[k] * xl[es[k][1] + 1][c]]) \div tot)
                    + B(p, tag + 2, c)]]

\* target rows that hold inf/nan: a non-finite source or target feature
\* reaches every attention coefficient of that target
GATv2Nonfinite(nd, el, badSrc, badDst) ==
    {i \in 1..nd :
        \E k \in 1..Len(el) :
            /\ el[k][2] = i - 1
            /\ (el[k][1] + 1 \in badSrc \/ i \in badDst)}

\* index_select / scatter raise on an edge endpoint outside the node range
GATv2Raises(ns, nd, el) ==
    \E k \in 1..Len(el) :
        ~InRangeStrict(el[k][1], ns) \/ ~InRangeStrict(el[k][2], nd)

AddRows(X, Y) == [r \in 1..Len(X) |-> [c \in 1..Len(X[r]) |-> X[r][c] + Y[r][c]]]

RECURSIVE SumTensors(_)
SumTensors(ts) ==
    IF Len(ts) = 1 THEN Head(ts) ELSE AddRows(Head(ts), SumTensors(Tail(ts)))

(* gnn.HeteroConv(conv_modules), aggr = 'sum': a relation whose key is not *)
(* in edge_index_dict is skipped; the result holds the node types that are *)
(* the target of at least one relation that ran.                           *)
RanRels(edges) == SelectSeq(Rels, LAMBDA rel : rel \in DOMAIN edges)

RelIndex(rel) == CHOOSE r \in 1..Len(Rels) : Rels[r] = rel

HeteroConvKeys(edges) == {Dst(RanRels(edges)[r]) : r \in 1..Len(RanRels(edges))}

HeteroConvRaises(x, edges) ==
    \E r \in 1..Len(RanRels(edges)) :
        LET rel == RanRels(edges)[r]
        IN  \/ Src(rel) \notin DOMAIN x
            \/ Dst(rel) \notin DOMAIN x
            \/ GATv2Raises(Len(x[Src(rel)]), Len(x[Dst(rel)]), edges[rel])

HeteroConv(p, k, x, edges) ==
    [t \in HeteroConvKeys(edges) |->
        LET into == SelectSeq(RanRels(edges), LAMBDA rel : Dst(rel) = t)
        IN  SumTensors([r \in 1..Len(into) |->
                GATv2Conv(p, ConvTag(k, RelIndex(into[r])),
                          x[Src(into[r])], x[t], edges[into[r]])])]

HeteroConvNonfinite(x, bad, edges) ==
    [t \in HeteroConvKeys(edges) |->
        UNION {GATv2Nonfinite(Len(x[t]), edges[rel], bad[Src(rel)], bad[t]) :
                 rel \in {q \in Range(RanRels(edges)) : Dst(q) = t}}]

\* lines 261-264: the nonlinearity on every entry of the dictionary
SiLUDict(x) == [t \in DOMAIN x |-> [r \in 1..Len(x[t]) |-> SiLUVec(x[t][r])]]

\* one pass of the loop body, lines 260-264, for round k
MessagePassingRound(p, k, x, edges) == Dict(SiLUDict(HeteroConv(p, k, x, edges)))

(* gnn.aggr.SumAggregation: without an index all rows are summed into one  *)
(* row; with an index, row g sums the rows whose index is g and there are  *)
(* max(index) + 1 rows.                                                    *)
SumRows(X, rows, width) ==
    [c \in 1..width |-> SumSeq([r \in 1..Len(X) |-> IF r \in rows THEN X[r][c] ELSE 0])]

NumGraphs(index) ==
    IF index = <<>> THEN 0 ELSE 1 + (CHOOSE g \in Range(index) : \A h \in Range(index) : h <= g)

\* a faulty variant: the index is not passed on, every row is summed into one
SumAggregationWithoutIndex(X, hasIndex, index) ==
    << SumRows(X, 1..Len(X), EmbedDim) >>

SumAggregation(X, hasIndex, index) ==
    IF ~hasIndex THEN << SumRows(X, 1..Len(X), EmbedDim) >>
    ELSE [g \in 1..NumGraphs(index) |->
            SumRows(X, {r \in 1..Len(X) : index[r] = g - 1}, EmbedDim)]

SumAggregationNonfinite(n, bad, hasIndex, index) ==
    IF ~hasIndex THEN (IF bad = {} THEN {} ELSE {1})
    ELSE {g \in 1..NumGraphs(index) : \E r \in bad : index[r] = g - 1}

\* scatter raises when the index does not give one graph per row
SumAggregationRaises(n, hasIndex, index) ==
    hasIndex /\ (Len(index) # n \/ \E r \in 1..Len(index) : index[r] < 0)

----------------------------------------------------------------------------
(* HeteroDCVRepresentationModule.__init__ *)

\* conc_eps = 0.01, in percent
ConcEps == 1

\* interaction_dim, line 47
InteractionDim(c) == IF c.use_inverse_concentration THEN NSigma * 4 ELSE NSigma

\* the buffers of dopant_norm, interaction_norm, intraaction_norm after
\* construction, lines 58, 67, 68
BNLayers(c) ==
    [dopant_norm |-> BNInit(EmbedDim),
     interaction_norm |-> BNInit(InteractionDim(c)),
     intraaction_norm |-> BNInit(InteractionDim(c))]

(* InteractionBlock(nsigma): the integrated radial interaction of the two  *)
(* shells [r0i, r0o] and [r1i, r1o] at nsigma length scales; it is 0 when  *)
(* a shell has zero width.                                                 *)
InteractionBlock(r0i, r0o, r1i, r1o) ==
    [sg \in 1..NSigma |->
        ((r0o - r0i) * (r1o - r1i) * 4 * sg)
            \div (sg + Abs((r0i + r0o) - (r1i + r1o)))]

----------------------------------------------------------------------------
(* HeteroDCVRepresentationModule.forward.  m is the module: its            *)
(* hyper-parameters cfg, parameter seed p, buffers bn and training flag;   *)
(* a holds the thirteen arguments.                                         *)

\* line 117: _radii = radii[constraint_radii_idx]
IndexedRadii(a) ==
    [k \in 1..Len(a.constraint_radii_idx) |->
        << At(a.radii, a.constraint_radii_idx[k][1]),
           At(a.radii, a.constraint_radii_idx[k][2]) >>]

\* 4/3 * pi * r^3, in units of pi/3
SphereVolume(r) == 4 * r * r * r

\* a faulty variant: the sphere of the inner radius is not subtracted
VolumeOfOuterSphere(a) ==
    LET _radii == IndexedRadii(a)
    IN  [k \in 1..Len(_radii) |-> SphereVolume(_radii[k][2])]

\* lines 120-121
Volume(a) ==
    LET _radii == IndexedRadii(a)
    IN  [k \in 1..Len(_radii) |->
            SphereVolume(_radii[k][2]) - SphereVolume(_radii[k][1])]

\* 1 / (c + conc_eps), in units of 1/10
InvConc(c) == 10 \div (c + ConcEps)

\* lines 127-130
ConcAttr(c, a) ==
    [i \in 1..Len(a.dopant_concs) |->
        IF c.use_inverse_concentration
        THEN << a.dopant_concs[i], InvConc(a.dopant_concs[i]) >>
        ELSE << a.dopant_concs[i] >>]

\* lines 134-140
GeometricFeatures(c, a) ==
    LET _radii == IndexedRadii(a)
        volume == Volume(a)
    IN  [i \in 1..Len(a.dopant_constraint_indices) |->
            IF c.use_volume_in_dopant_constraint
            THEN At(_radii, a.dopant_constraint_indices[i])
                    \o << At(volume, a.dopant_constraint_indices[i]) >>
            ELSE At(_radii, a.dopant_constraint_indices[i])]

\* the lookups of lines 117-140 that raise IndexError
DopantIndexError(a) ==
    \/ \E k \in 1..Len(a.constraint_radii_idx) :
          \E h \in 1..2 : ~InRange(a.constraint_radii_idx[k][h], Len(a.radii))
    \/ \E i \in 1..Len(a.dopant_types) : a.dopant_types[i] \notin 0..2
    \/ \E i \in 1..Len(a.dopant_constraint_indices) :
          ~InRange(a.dopant_constraint_indices[i], Len(a.constraint_radii_idx))
    \/ Len(a.dopant_concs) # Len(a.dopant_types)
    \/ Len(a.dopant_constraint_indices) # Len(a.dopant_types)

\* lines 124-142: the dopant features that enter dopant_norm
DopantPreNorm(m, a) ==
    LET conc_attr == ConcAttr(m.cfg, a)
        geometric_features == GeometricFeatures(m.cfg, a)
    IN  [i \in 1..Len(a.dopant_types) |->
            FiLMLayer(m.p, 6,
                      FiLMLayer(m.p, 2, Embedding(m.p, 1, EmbedDim, a.dopant_types[i]),
                                conc_attr[i]),
                      geometric_features[i])]

\* line 145
DopantAttr(m, a) ==
    BatchNormOut(m.p, 10, m.bn.dopant_norm, m.training, DopantPreNorm(m, a))

----------------------------------------------------------------------------
(* The interaction branch, lines 152-202 *)

\* lines 153-157: the embedding of the interaction nodes
InteractionEmbed(m, a) ==
    [e \in 1..Len(a.interaction_dopant_indices) |->
        IF m.cfg.interaction_embedding
        THEN Embedding(m.p, 12, EmbedDim, a.interaction_types[e])
        ELSE Linear(m.p, 12, EmbedDim, a.interaction_type_indices[e])]

\* the lookups of the interaction branch that raise
InteractionIndexError(c, a) ==
    \/ \E e \in 1..Len(a.interaction_dopant_indices) :
          \E h \in 1..2 : ~InRange(a.interaction_dopant_indices[e][h], Len(a.dopant_types))
    \/ /\ c.interaction_embedding
       /\ \/ Len(a.interaction_types) # Len(a.interaction_dopant_indices)
          \/ \E e \in 1..Len(a.interaction_types) : a.interaction_types[e] \notin 0..8
    \/ /\ ~c.interaction_embedding
       /\ Len(a.interaction_type_indices) # Len(a.interaction_dopant_indices)

\* lines 160-163: the radii of the two shells of interaction node e and the
\* integrated interaction of the pair
IntegratedInteraction(a, e) ==
    LET _radii == IndexedRadii(a)
        dopantRadii == [i \in 1..Len(a.dopant_constraint_indices) |->
                          At(_radii, a.dopant_constraint_indices[i])]
        node_radii == At(dopantRadii, a.interaction_dopant_indices[e][1])
                        \o At(dopantRadii, a.interaction_dopant_indices[e][2])
    IN  InteractionBlock(node_radii[1], node_radii[2], node_radii[3], node_radii[4])

\* a faulty variant: the concentrations are looked up by the position of
\* the node in the list instead of through interaction_dopant_indices
InteractionConcByPosition(c, a, e) ==
    LET c0 == At(a.dopant_concs, e - 1)
        c1 == At(a.dopant_concs, a.interaction_dopant_indices[e][2])
        integ == IntegratedInteraction(a, e)
        conc_factor == << c0 * c1, c0 * InvConc(c1),
                          InvConc(c0) * c1, InvConc(c0) * InvConc(c1) >>
    IN  IF c.use_inverse_concentration
        THEN [q \in 1..(4 * NSigma) |->
                conc_factor[((q - 1) \div NSigma) + 1] * integ[((q - 1) % NSigma) + 1]]
        ELSE [sg \in 1..NSigma |-> (c0 * c1) * integ[sg]]

\* a faulty variant: the reshape runs over the length scales first, so the
\* four factors of one length scale are next to each other
InteractionConcInterleaved(c, a, e) ==
    LET c0 == At(a.dopant_concs, a.interaction_dopant_indices[e][1])
        c1 == At(a.dopant_concs, a.interaction_dopant_indices[e][2])
        integ == IntegratedInteraction(a, e)
        conc_factor == << c0 * c1, c0 * InvConc(c1),
                          InvConc(c0) * c1, InvConc(c0) * InvConc(c1) >>
    IN  IF c.use_inverse_concentration
        THEN [q \in 1..(4 * NSigma) |->
                conc_factor[((q - 1) % 4) + 1] * integ[((q - 1) \div 4) + 1]]
        ELSE [sg \in 1..NSigma |-> (c0 * c1) * integ[sg]]

\* lines 166-187: the concentration factors times the integrated interaction
InteractionConc(c, a, e) ==
    LET c0 == At(a.dopant_concs, a.interaction_dopant_indices[e][1])
        c1 == At(a.dopant_concs, a.interaction_dopant_indices[e][2])
        integ == IntegratedInteraction(a, e)
        conc_factor == << c0 * c1, c0 * InvConc(c1),
                          InvConc(c0) * c1, InvConc(c0) * InvConc(c1) >>
    IN  IF c.use_inverse_concentration
        THEN [q \in 1..(4 * NSigma) |->
                conc_factor[((q - 1) \div NSigma) + 1] * integ[((q - 1) % NSigma) + 1]]
        ELSE [sg \in 1..NSigma |-> (c0 * c1) * integ[sg]]

\* lines 192-193: the product of the volumes of the two shells
InteractionNormFactor(a, e) ==
    LET volume == Volume(a)
        dopantVolume == [i \in 1..Len(a.dopant_constraint_indices) |->
                            At(volume, a.dopant_constraint_indices[i])]
    IN  At(dopantVolume, a.interaction_dopant_indices[e][1])
          * At(dopantVolume, a.interaction_dopant_indices[e][2])

\* line 194: the division by the volumes, in units of 1/10; a zero
\* denominator gives inf or nan, which the row mask below records
InteractionByVolume(v, norm_factor) ==
    [q \in 1..Len(v) |-> IF norm_factor = 0 THEN 0 ELSE (10 * v[q]) \div norm_factor]

InteractionPreNorm(c, a) ==
    [e \in 1..Len(a.interaction_dopant_indices) |->
        IF c.normalize_interaction_by_volume
        THEN InteractionByVolume(InteractionConc(c, a, e), InteractionNormFactor(a, e))
        ELSE InteractionConc(c, a, e)]

\* the rows of the conditioning tensor that hold inf/nan before the norm
InteractionPreNormNonfinite(c, a) ==
    {e \in 1..Len(a.interaction_dopant_indices) :
        c.normalize_interaction_by_volume /\ InteractionNormFactor(a, e) = 0}

\* line 197: the batch norm of the conditioning tensor
InteractionCond(m, a) ==
    BatchNormOut(m.p, 14, m.bn.interaction_norm, m.training, InteractionPreNorm(m.cfg, a))

InteractionCondNonfinite(m, a) ==
    BatchNormNonfinite(m.bn.interaction_norm, m.training, Len(a.interaction_dopant_indices),
                       InteractionPreNormNonfinite(m.cfg, a))

\* lines 200-201: the FiLM layer conditions the embedding on it
InteractionAttr(m, a) ==
    LET interaction_attr == InteractionEmbed(m, a)
        integrated == InteractionCond(m, a)
    IN  [e \in 1..Len(a.interaction_dopant_indices) |->
            FiLMLayer(m.p, 16, interaction_attr[e], integrated[e])]

----------------------------------------------------------------------------
(* The intraaction branch, lines 204-256 *)

\* lines 206-211: the embedding of the intraaction nodes
IntraactionEmbed(m, a) ==
    [e \in 1..Len(a.intraaction_dopant_indices) |->
        IF m.cfg.interaction_embedding
        THEN Embedding(m.p, 22, EmbedDim, a.intraaction_types[e])
        ELSE Linear(m.p, 22, EmbedDim, a.intraaction_type_indices[e])]

\* the lookups of the intraaction branch that raise
IntraactionIndexError(c, a) ==
    \/ \E e \in 1..Len(a.intraaction_dopant_indices) :
          \E h \in 1..2 : ~InRange(a.intraaction_dopant_indices[e][h], Len(a.dopant_types))
    \/ /\ c.interaction_embedding
       /\ \/ Len(a.intraaction_types) # Len(a.intraaction_dopant_indices)
          \/ \E e \in 1..Len(a.intraaction_types) : a.intraaction_types[e] \notin 0..8
    \/ /\ ~c.interaction_embedding
       /\ Len(a.intraaction_type_indices) # Len(a.intraaction_dopant_indices)

\* lines 214-217: the radii of the two shells of intraaction node e and the
\* integrated interaction of the pair
IntegratedIntraaction(a, e) ==
    LET _radii == IndexedRadii(a)
        dopantRadii == [i \in 1..Len(a.dopant_constraint_indices) |->
                          At(_radii, a.dopant_constraint_indices[i])]
        node_radii == At(dopantRadii, a.intraaction_dopant_indices[e][1])
                        \o At(dopantRadii, a.intraaction_dopant_indices[e][2])
    IN  InteractionBlock(node_radii[1], node_radii[2], node_radii[3], node_radii[4])

\* lines 220-241: the concentration factors times the integrated interaction
IntraactionConc(c, a, e) ==
    LET c0 == At(a.dopant_concs, a.intraaction_dopant_indices[e][1])
        c1 == At(a.dopant_concs, a.intraaction_dopant_indices[e][2])
        integ == IntegratedIntraaction(a, e)
        conc_factor == << c0 * c1, c0 * InvConc(c1),
                          InvConc(c0) * c1, InvConc(c0) * InvConc(c1) >>
    IN  IF c.use_inverse_concentration
        THEN [q \in 1..(4 * NSigma) |->
                conc_factor[((q - 1) \div NSigma) + 1] * integ[((q - 1) % NSigma) + 1]]
        ELSE [sg \in 1..NSigma |-> (c0 * c1) * integ[sg]]

\* lines 246-247: the product of the volumes of the two shells
IntraactionNormFactor(a, e) ==
    LET volume == Volume(a)
        dopantVolume == [i \in 1..Len(a.dopant_constraint_indices) |->
                            At(volume, a.dopant_constraint_indices[i])]
    IN  At(dopantVolume, a.intraaction_dopant_indices[e][1])
          * At(dopantVolume, a.intraaction_dopant_indices[e][2])

\* line 248: the division by the volumes, in units of 1/10; a zero
\* denominator gives inf or nan, which the row mask below records
IntraactionByVolume(v, norm_factor) ==
    [q \in 1..Len(v) |-> IF norm_factor = 0 THEN 0 ELSE (10 * v[q]) \div norm_factor]

IntraactionPreNorm(c, a) ==
    [e \in 1..Len(a.intraaction_dopant_indices) |->
        IF c.normalize_interaction_by_volume
        THEN IntraactionByVolume(IntraactionConc(c, a, e), IntraactionNormFactor(a, e))
        ELSE IntraactionConc(c, a, e)]

\* the rows of the conditioning tensor that hold inf/nan before the norm
IntraactionPreNormNonfinite(c, a) ==
    {e \in 1..Len(a.intraaction_dopant_indices) :
        c.normalize_interaction_by_volume /\ IntraactionNormFactor(a, e) = 0}

\* a faulty variant: the intraaction branch goes through interaction_norm
IntraactionCondSharedNorm(m, a) ==
    BatchNormOut(m.p, 24, m.bn.interaction_norm, m.training, IntraactionPreNorm(m.cfg, a))

\* line 251: the batch norm of the conditioning tensor
IntraactionCond(m, a) ==
    BatchNormOut(m.p, 24, m.bn.intraaction_norm, m.training, IntraactionPreNorm(m.cfg, a))

IntraactionCondNonfinite(m, a) ==
    BatchNormNonfinite(m.bn.intraaction_norm, m.training, Len(a.intraaction_dopant_indices),
                       IntraactionPreNormNonfinite(m.cfg, a))

\* lines 254-255: the FiLM layer conditions the embedding on it
IntraactionAttr(m, a) ==
    LET intraaction_attr == IntraactionEmbed(m, a)
        integrated == IntraactionCond(m, a)
    IN  [e \in 1..Len(a.intraaction_dopant_indices) |->
            FiLMLayer(m.p, 26, intraaction_attr[e], integrated[e])]

----------------------------------------------------------------------------
(* forward as a whole: what a call returns for module m and arguments a *)

Module(c, p, b, t) == [cfg |-> c, p |-> p, bn |-> b, training |-> t]

EmptyDict == [t \in {} |-> <<>>]
NoOut == <<>>

\* line 265: batch_dict and 'dopant' in batch_dict
HasDopantIndex(a) ==
    ~a.batch_dict.isNone /\ "dopant" \in DOMAIN a.batch_dict.dict

DopantIndex(a) == IF HasDopantIndex(a) THEN a.batch_dict.dict["dopant"] ELSE <<>>

\* lines 148-150, 202, 256: intermediate_x_dict before the first round
ConditionedFeatures(m, a) ==
    Dict([t \in NodeTypes |->
            CASE t = "dopant" -> DopantAttr(m, a)
              [] t = "interaction" -> InteractionAttr(m, a)
              [] t = "intraaction" -> IntraactionAttr(m, a)])

ConditionedNonfinite(m, a) ==
    [t \in NodeTypes |->
        CASE t = "dopant" ->
                BatchNormNonfinite(m.bn.dopant_norm, m.training,
                                   Len(a.dopant_types), {})
          [] t = "interaction" -> InteractionCondNonfinite(m, a)
          [] t = "intraaction" -> IntraactionCondNonfinite(m, a)]

\* everything before the loop that raises, lines 117-256
ConditioningRaises(m, a) ==
    \/ DopantIndexError(a)
    \/ BatchNormRaises(m.training, Len(a.dopant_types))
    \/ InteractionIndexError(m.cfg, a)
    \/ BatchNormRaises(m.training, Len(a.interaction_dopant_indices))
    \/ IntraactionIndexError(m.cfg, a)
    \/ BatchNormRaises(m.training, Len(a.intraaction_dopant_indices))

\* a faulty variant: every iteration uses the convolutions of the first round
FirstConv(k) == 1

\* line 259: the k-th iteration of `for conv in self.convs` uses convs[k]
ConvOfRound(k) == k

\* line 259: the loop runs while convs are left
LoopContinues(done, n) == done < n

\* lines 259-264 from round k on; s = [raised, x, bad]
RECURSIVE RoundsFrom(_, _, _, _)
RoundsFrom(m, a, k, s) ==
    IF s.raised \/ ~LoopContinues(k - 1, m.cfg.n_message_passing) THEN s
    ELSE IF HeteroConvRaises(s.x, a.edge_index_dict)
    THEN [s EXCEPT !.raised = TRUE]
    ELSE CHOOSE r \in
            {RoundsFrom(m, a, k + 1, next) :
                next \in {[raised |-> FALSE,
                           x |-> MessagePassingRound(m.p, ConvOfRound(k), s.x,
                                                     a.edge_index_dict),
                           bad |-> HeteroConvNonfinite(s.x, s.bad,
                                                       a.edge_index_dict)]}} : TRUE

\* lines 265-269: the aggregator reads the dopant features
AggregateRaises(x, a) ==
    \/ "dopant" \notin DOMAIN x
    \/ SumAggregationRaises(Len(x["dopant"]), HasDopantIndex(a), DopantIndex(a))

\* a faulty variant: the interaction features are pooled with the dopant ones
FinalOutAllTypes(x, a) ==
    SumAggregation(x["dopant"] \o (IF "interaction" \in DOMAIN x
                                    THEN x["interaction"] ELSE <<>>),
                   FALSE, <<>>)

FinalOut(x, a) == SumAggregation(x["dopant"], HasDopantIndex(a), DopantIndex(a))

FinalNonfinite(x, bad, a) ==
    SumAggregationNonfinite(Len(x["dopant"]), bad["dopant"],
                            HasDopantIndex(a), DopantIndex(a))

Raised == [raised |-> TRUE, out |-> NoOut, nonfinite |-> {}]

Forward(m, a) ==
    IF ConditioningRaises(m, a) THEN Raised
    ELSE LET s0 == Value([raised |-> FALSE,
                          x |-> ConditionedFeatures(m, a),
                          bad |-> ConditionedNonfinite(m, a)])
             s == CHOOSE r \in {RoundsFrom(m, a, 1, v) : v \in {s0}} : TRUE
         IN  IF s.raised \/ AggregateRaises(s.x, a) THEN Raised
             ELSE [raised |-> FALSE,
                   out |-> FinalOut(s.x, a),
                   nonfinite |-> FinalNonfinite(s.x, s.bad, a)]

----------------------------------------------------------------------------
(* The data pipeline: the tensors of one nanoparticle, and of a batch.     *)
(* A description gives the shell boundaries (the first is 0) and, per      *)
(* dopant, <<shell, type, concentration in percent>>.                      *)

NoBatch == [isNone |-> TRUE, dict |-> EmptyDict]

AllPairs(n) == Flatten([i \in 1..n |-> [j \in 1..(n - i) |-> << i - 1, i + j - 1 >>]])

\* the edges between the pair nodes and their two dopants
ToPairEdges(pairs) ==
    Flatten([e \in 1..Len(pairs) |-> << << pairs[e][1], e - 1 >>, << pairs[e][2], e - 1 >> >>])
FromPairEdges(pairs) ==
    Flatten([e \in 1..Len(pairs) |-> << << e - 1, pairs[e][1] >>, << e - 1, pairs[e][2] >> >>])

BuildGraph(desc) ==
    LET d == desc.dopants
        inter == SelectSeq(AllPairs(Len(d)), LAMBDA q : d[q[1] + 1][1] # d[q[2] + 1][1])
        intra == SelectSeq(AllPairs(Len(d)), LAMBDA q : d[q[1] + 1][1] = d[q[2] + 1][1])
        typeIdx(pairs) == [e \in 1..Len(pairs) |->
                             << d[pairs[e][1] + 1][2], d[pairs[e][2] + 1][2] >>]
        types(pairs) == [e \in 1..Len(pairs) |->
                             3 * d[pairs[e][1] + 1][2] + d[pairs[e][2] + 1][2]]
    IN  [dopant_types |-> [i \in 1..Len(d) |-> d[i][2]],
         dopant_concs |-> [i \in 1..Len(d) |-> d[i][3]],
         dopant_constraint_indices |-> [i \in 1..Len(d) |-> d[i][1]],
         interaction_type_indices |-> typeIdx(inter),
         interaction_types |-> types(inter),
         interaction_dopant_indices |-> inter,
         intraaction_type_indices |-> typeIdx(intra),
         intraaction_types |-> types(intra),
         intraaction_dopant_indices |-> intra,
         edge_index_dict |->
            [rel \in Range(Rels) |->
                CASE rel = RelDI -> ToPairEdges(inter)
                  [] rel = RelID -> FromPairEdges(inter)
                  [] rel = RelDA -> ToPairEdges(intra)
                  [] rel = RelAD -> FromPairEdges(intra)],
         radii |-> desc.radii,
         constraint_radii_idx |-> [k \in 1..(Len(desc.radii) - 1) |-> << k - 1, k >>],
         batch_dict |-> NoBatch]

Shift(s, by) == [i \in 1..Len(s) |-> s[i] + by]
ShiftPairs(s, by1, by2) == [i \in 1..Len(s) |-> << s[i][1] + by1, s[i][2] + by2 >>]
Count(a, t) ==
    CASE t = "dopant" -> Len(a.dopant_types)
      [] t = "interaction" -> Len(a.interaction_dopant_indices)
      [] t = "intraaction" -> Len(a.intraaction_dopant_indices)
Fill(n, v) == [i \in 1..n |-> v]

\* the membership index of a batch that holds one graph so far
GraphIndex(a) ==
    IF a.batch_dict.isNone THEN [t \in NodeTypes |-> Fill(Count(a, t), 0)]
    ELSE a.batch_dict.dict

\* Batch.from_data_list on a batch A and one more graph g: node tensors are
\* concatenated and every index is offset by the size of what it points into
Append1(A, g) ==
    LET nd == Len(A.dopant_types)
        k == NumGraphs(GraphIndex(A)["dopant"])
    IN  [dopant_types |-> A.dopant_types \o g.dopant_types,
         dopant_concs |-> A.dopant_concs \o g.dopant_concs,
         dopant_constraint_indices |->
            A.dopant_constraint_indices
              \o Shift(g.dopant_constraint_indices, Len(A.constraint_radii_idx)),
         interaction_type_indices |-> A.interaction_type_indices \o g.interaction_type_indices,
         interaction_types |-> A.interaction_types \o g.interaction_types,
         interaction_dopant_indices |->
            A.interaction_dopant_indices \o ShiftPairs(g.interaction_dopant_indices, nd, nd),
         intraaction_type_indices |-> A.intraaction_type_indices \o g.intraaction_type_indices,
         intraaction_types |-> A.intraaction_types \o g.intraaction_types,
         intraaction_dopant_indices |->
            A.intraaction_dopant_indices \o ShiftPairs(g.intraaction_dopant_indices, nd, nd),
         edge_index_dict |->
            [rel \in DOMAIN A.edge_index_dict |->
                A.edge_index_dict[rel]
                  \o ShiftPairs(g.edge_index_dict[rel], Count(A, Src(rel)), Count(A, Dst(rel)))],
         radii |-> A.radii \o g.radii,
         constraint_radii_idx |->
            A.constraint_radii_idx
              \o ShiftPairs(g.constraint_radii_idx, Len(A.radii), Len(A.radii)),
         batch_dict |->
            [isNone |-> FALSE,
             dict |-> [t \in NodeTypes |-> GraphIndex(A)[t] \o Fill(Count(g, t), k)]]]

RECURSIVE CollateFrom(_, _)
CollateFrom(A, gs) == IF gs = <<>> THEN A ELSE CollateFrom(Append1(A, Head(gs)), Tail(gs))

\* a batch of the graphs gs (at least one)
Collate(gs) ==
    CollateFrom([Head(gs) EXCEPT !.batch_dict =
                    [isNone |-> FALSE, dict |-> GraphIndex(Head(gs))]], Tail(gs))

----------------------------------------------------------------------------
(* The inputs of the model *)

NP(radii, dopants) == [radii |-> radii, dopants |-> dopants]

\* one shell, one dopant
OneDopant == NP(<<0, 1>>, << <<0, 0, 2>> >>)
\* one shell, two dopants: one intraaction node, no interaction node
OneShellTwo == NP(<<0, 2>>, << <<0, 0, 2>>, <<0, 1, 1>> >>)
\* two shells, one dopant each: one interaction node, no intraaction node
TwoShellsTwo == NP(<<0, 1, 2>>, << <<0, 0, 2>>, <<1, 1, 5>> >>)
\* shell 1 with A at 2% and B at 1%, shell 2 with A at 5%
TwoShellsThree == NP(<<0, 1, 2>>, << <<0, 0, 2>>, <<0, 1, 1>>, <<1, 0, 5>> >>)
\* two shells with two dopants each: four interaction, two intraaction nodes
TwoShellsFour ==
    NP(<<0, 1, 2>>, << <<0, 0, 2>>, <<0, 2, 1>>, <<1, 0, 5>>, <<1, 1, 0>> >>)
\* three dopants in shell 1, one in shell 2: three interaction and three
\* intraaction nodes
ThreeAndOne ==
    NP(<<0, 1, 2>>, << <<0, 0, 2>>, <<0, 1, 1>>, <<0, 2, 3>>, <<1, 1, 5>> >>)
\* one shell, three dopants: three intraaction nodes, no interaction node
OneShellThree == NP(<<0, 2>>, << <<0, 0, 1>>, <<0, 1, 2>>, <<0, 2, 3>> >>)
\* three shells, one dopant each: three interaction nodes, no intraaction node
ThreeShellsThree == NP(<<0, 1, 2, 3>>, << <<0, 0, 4>>, <<1, 1, 2>>, <<2, 2, 1>> >>)
\* the second shell has zero width
ZeroWidthShell == NP(<<0, 1, 1>>, << <<0, 0, 2>>, <<1, 1, 3>>, <<1, 0, 1>> >>)

Sample(descs, batched, defect) ==
    [graphs |-> [i \in 1..Len(descs) |-> BuildGraph(descs[i])],
     batched |-> batched, defect |-> defect]

NoData == Sample(<<>>, FALSE, "none")

SetPair(pairs, e, h, v) == [pairs EXCEPT ![e] = [@ EXCEPT ![h] = v]]

Without(f, keys) == [k \in (DOMAIN f) \ keys |-> f[k]]

\* arguments that disagree with their role
ApplyDefect(defect, a) ==
    CASE defect = "none" -> a
      [] defect = "negative_pair_index" ->
            [a EXCEPT !.interaction_dopant_indices = SetPair(@, 1, 1, -1)]
      [] defect = "large_pair_index" ->
            [a EXCEPT !.intraaction_dopant_indices = SetPair(@, 1, 2, Len(a.dopant_types))]
      [] defect = "negative_constraint_index" ->
            [a EXCEPT !.dopant_constraint_indices = [@ EXCEPT ![1] = -1]]
      [] defect = "large_constraint_index" ->
            [a EXCEPT !.dopant_constraint_indices =
                        [@ EXCEPT ![1] = Len(a.constraint_radii_idx)]]
      [] defect = "large_edge_index" ->
            [a EXCEPT !.edge_index_dict =
                [@ EXCEPT ![RelID] = SetPair(@, 1, 2, Len(a.dopant_types))]]
      [] defect = "negative_edge_index" ->
            [a EXCEPT !.edge_index_dict = [@ EXCEPT ![RelDI] = SetPair(@, 1, 1, -1)]]
      [] defect = "absent_dopant_to_interaction" ->
            [a EXCEPT !.edge_index_dict = Without(@, {RelDI})]
      [] defect = "absent_interaction_relations" ->
            [a EXCEPT !.edge_index_dict = Without(@, {RelDI, RelID})]
      [] defect = "absent_relations_into_dopant" ->
            [a EXCEPT !.edge_index_dict = Without(@, {RelID, RelAD})]
      [] defect = "empty_batch_dict" ->
            [a EXCEPT !.batch_dict = [isNone |-> FALSE, dict |-> EmptyDict]]
      [] defect = "batch_dict_without_dopant" ->
            [a EXCEPT !.batch_dict =
                [isNone |-> FALSE, dict |-> Without(GraphIndex(a), {"dopant"})]]

\* HeteroDCVModel.get_inputs on what the data loader yields: one graph
\* with batch_dict None, or a batch
GetInputs(d) ==
    ApplyDefect(d.defect,
                IF d.batched THEN Collate(d.graphs) ELSE d.graphs[1])

NoArgs == BuildGraph(NP(<<0>>, <<>>))

Defects ==
    {"negative_pair_index", "large_pair_index", "negative_constraint_index",
     "large_constraint_index", "large_edge_index", "negative_edge_index",
     "absent_dopant_to_interaction", "absent_interaction_relations",
     "absent_relations_into_dopant"}

\* the families of inputs a caller draws from
Pool(name) ==
    CASE name = "single" ->
            {Sample(<<g>>, FALSE, "none") :
                g \in {OneDopant, ThreeAndOne, OneShellThree, ThreeShellsThree}}
      [] name = "batch" ->
            {Sample(gs, TRUE, "none") :
                gs \in { <<TwoShellsThree>>, <<OneShellTwo, TwoShellsTwo>>,
                         <<OneShellThree, ThreeShellsThree>>,
                         <<OneDopant, TwoShellsTwo, OneShellTwo>> }}
      [] name = "index" ->
            {Sample(<<TwoShellsFour>>, FALSE, f) :
                f \in {"negative_pair_index", "large_pair_index",
                       "negative_constraint_index", "large_constraint_index",
                       "large_edge_index", "negative_edge_index"}}
      [] name = "keys" ->
            {Sample(<<TwoShellsFour>>, FALSE, f) :
                f \in {"none", "absent_dopant_to_interaction",
                       "absent_interaction_relations",
                       "absent_relations_into_dopant"}}
              \cup {Sample(<<OneShellThree>>, FALSE, "absent_interaction_relations")}
      [] name = "degenerate" ->
            {Sample(<<g>>, FALSE, "none") : g \in {ZeroWidthShell, TwoShellsThree}}
      [] name = "empty" ->
            {Sample(<<g>>, FALSE, "none") :
                g \in {OneDopant, OneShellTwo, TwoShellsTwo, OneShellThree,
                       ThreeShellsThree}}
      [] name = "flags" ->
            {Sample(<<g>>, FALSE, "none") : g \in {TwoShellsThree, OneShellThree}}
      [] name = "volume" ->
            {Sample(<<g>>, FALSE, "none") :
                g \in {ZeroWidthShell, ThreeShellsThree, OneDopant}}
      [] name = "model" ->
            {Sample(<<ThreeAndOne>>, FALSE, "none"),
             Sample(<<OneShellTwo, TwoShellsTwo>>, TRUE, "none"),
             Sample(<<OneDopant>>, FALSE, "none")}
      [] name = "membership" ->
            {Sample(<<OneShellTwo, TwoShellsThree>>, TRUE, f) :
                f \in {"none", "empty_batch_dict", "batch_dict_without_dopant"}}
              \cup {Sample(<<OneDopant, TwoShellsTwo, OneShellThree>>, TRUE, "none"),
                    Sample(<<ThreeShellsThree>>, FALSE, "none"),
                    Sample(<<TwoShellsTwo>>, FALSE, "empty_batch_dict")}

Config(n, vol, norm, inv, emb) ==
    [n_message_passing |-> n,
     use_volume_in_dopant_constraint |-> vol,
     normalize_interaction_by_volume |-> norm,
     use_inverse_concentration |-> inv,
     interaction_embedding |-> emb]

\* the hyper-parameters a pool is run with: the defaults of __init__ and
\* every option switched on, for every number of rounds
Configs ==
    {Config(n, f, f, f, f) : n \in 0..MaxRounds, f \in BOOLEAN}

\* every combination of the four flags, with one round
FlagConfigs ==
    {Config(1, vol, norm, inv, emb) : vol, norm, inv, emb \in BOOLEAN}

----------------------------------------------------------------------------
(* TransformerFeatureProcessor (transformer_model/data.py).  A document    *)
(* holds the outer radius of each layer and, per layer, the concentration  *)
(* of the elements it is doped with.                                       *)

\* max_layers of the processor
MaxLayers == 3

\* possible_elements, line 15
PossibleElements == <<"Yb", "Er", "Nd">>

\* volume_scale_factor = 1e-6, line 16, as 1 / VolumeScaleDen
VolumeScaleDen == 1000000

Doc(radii, concs) == [constraints |-> radii, dopant_concentration |-> concs]

NoDoc == Doc(<<>>, <<>>)

Conc(el, c) == [e \in {el} |-> c]

\* documents with fewer layers than max_layers, as many, more, a layer of
\* zero width and radii that decrease
Docs ==
    {Doc(<<1>>, << Conc("Yb", 2) >>),
     Doc(<<1, 2>>, << Conc("Yb", 2), Conc("Er", 5) >>),
     Doc(<<1, 1, 3>>, << Conc("Yb", 2), Conc("Nd", 1) >>),
     Doc(<<2, 1>>, << Conc("Er", 1), Conc("Yb", 3) >>),
     Doc([k \in 1..(MaxLayers + 1) |-> k], << Conc("Yb", 1) >>)}

\* DataProcessor.get_volume: the volume of the sphere of radius r, in
\* units of pi/3
GetVolume(r) == 4 * r * r * r

\* line 47: volume * self.volume_scale_factor, as a fraction
Scaled(volume) == [num |-> volume, den |-> VolumeScaleDen]

\* lines 49-50, 56: the literal 0
Zero == [num |-> 0, den |-> 1]

\* line 33
Types == Flatten([i \in 1..MaxLayers |-> [j \in 1..Len(PossibleElements) |-> j - 1]])

NoProc ==
    [pc |-> "idle", doc |-> NoDoc, layer |-> 0, r_lower_bound |-> 0,
     shells |-> <<>>, volumes |-> <<>>, compositions |-> <<>>, x |-> <<>>]

----------------------------------------------------------------------------
(* HeteroDCVModel and AugmentHeteroDCVModel, lines 274-534 *)

\* the keyword arguments a caller may construct the model with
KwargsGiven ==
    {EmptyDict,
     [k \in {"n_input_nodes"} |-> 7],
     [k \in {"n_output_nodes"} |-> 3],
     [k \in {"n_input_nodes", "n_output_nodes"} |-> IF k = "n_input_nodes" THEN 7 ELSE 3]}

\* a faulty variant: the key stays in kwargs
KeepInputNodes(kwargs) == kwargs

\* lines 282-286: del kwargs['n_input_nodes']
DropInputNodes(kwargs) == Without(kwargs, {"n_input_nodes"})

\* line 288: the keywords of super().__init__(n_input_nodes=embed_dim,
\* **kwargs); a keyword given twice is a TypeError
DuplicateKeyword(kwargs) == "n_input_nodes" \in DOMAIN kwargs

SuperKeywords(kwargs) ==
    [k \in {"n_input_nodes"} \cup DOMAIN kwargs |->
        IF k = "n_input_nodes" THEN EmbedDim ELSE kwargs[k]]

\* readout_layers, line 280, with small widths
ReadoutLayers == <<2>>

\* a faulty variant: the readout is as wide as the configured spectrum
SpectrumOutputs(kwargs) ==
    IF "n_output_nodes" \in DOMAIN kwargs THEN kwargs["n_output_nodes"] ELSE 1

\* line 298: NonLinearMLP(embed_dim, 1, ...), the readout has one output
ReadoutOutputs(kwargs) == 1

\* nn.Dropout(0.25): in training the units of mask are zeroed and the
\* others scaled by 1 / (1 - 0.25); in evaluation it is the identity
Dropout(v, train, mask) ==
    [i \in 1..Len(v) |->
        IF ~train THEN v[i] ELSE IF i \in mask THEN 0 ELSE (4 * v[i]) \div 3]

\* line 298 and 320: the readout of one pooled row
Readout(p, kwargs, x, train, mask) ==
    Linear(p, 41, ReadoutOutputs(kwargs),
           Dropout(SiLUVec(Linear(p, 40, ReadoutLayers[1], x)), train, mask))

ReadoutRows(p, kwargs, rep, train, mask) ==
    [g \in 1..Len(rep) |-> Readout(p, kwargs, rep[g], train, mask)]

\* the parameters of HeteroDCVModel.forward, lines 301-313
ForwardParams ==
    <<"dopant_types", "dopant_concs", "dopant_constraint_indices",
      "interaction_type_indices", "interaction_types",
      "interaction_dopant_indices", "intraaction_type_indices",
      "intraaction_types", "intraaction_dopant_indices", "edge_index_dict",
      "radii", "constraint_radii_idx", "batch_dict">>

\* a faulty variant: the two lists of dopant indices change places
ForwardPassesSwapped ==
    <<"dopant_types", "dopant_concs", "dopant_constraint_indices",
      "interaction_type_indices", "interaction_types",
      "intraaction_dopant_indices", "intraaction_type_indices",
      "intraaction_types", "interaction_dopant_indices", "edge_index_dict",
      "radii", "constraint_radii_idx", "batch_dict">>

\* the locals forward passes on, in the order of lines 315-319
ForwardPasses ==
    <<"dopant_types", "dopant_concs", "dopant_constraint_indices",
      "interaction_type_indices", "interaction_types",
      "interaction_dopant_indices", "intraaction_type_indices",
      "intraaction_types", "intraaction_dopant_indices", "edge_index_dict",
      "radii", "constraint_radii_idx", "batch_dict">>

\* the parameters of HeteroDCVRepresentationModule.forward, lines 103-115
RepresentationParams ==
    <<"dopant_types", "dopant_concs", "dopant_constraint_indices",
      "interaction_type_indices", "interaction_types",
      "interaction_dopant_indices", "intraaction_type_indices",
      "intraaction_types", "intraaction_dopant_indices", "edge_index_dict",
      "radii", "constraint_radii_idx", "batch_dict">>

\* a call f(*values): the i-th value is bound to the i-th parameter
BindPositional(names, values) ==
    [q \in Range(names) |-> values[CHOOSE i \in 1..Len(names) : names[i] = q]]

\* a call f(**kwargs): every parameter is bound to the value of its name
BindKeywords(names, kwargs) == [q \in Range(names) |-> kwargs[q]]

\* lines 314-319: what the representation module receives from
\* self(**inputs)
ForwardInputs(inputs) ==
    LET locals == BindKeywords(ForwardParams, inputs)
    IN  BindPositional(RepresentationParams,
                       [i \in 1..Len(ForwardPasses) |-> locals[ForwardPasses[i]]])

----------------------------------------------------------------------------
(* HeteroDCVModel._step.  A metric name '<prefix>_<name>' is the pair      *)
(* <<prefix, name>>; a loss over tensors is the floor of its mean.         *)

\* the prefixes _step is called with: 'train' by training_step, the others
\* by training.py, lines 253, 265, 282 and 299
Prefixes == {"train", "train_eval", "val", "test", "iid_test"}

\* batch.log_y: one row per graph, as wide as the readout
LogY(n, target) == [g \in 1..n |-> << target + g >>]

Elements(X, Y, f(_, _)) ==
    Flatten([r \in 1..Len(X) |-> [c \in 1..Len(X[r]) |-> f(X[r][c], Y[r][c])]])

Mean(v) == IF v = <<>> THEN 0 ELSE SumSeq(v) \div Len(v)

\* F.mse_loss
MSELoss(X, Y) == Mean(Elements(X, Y, LAMBDA x, y : (x - y) * (x - y)))

\* F.l1_loss
L1Loss(X, Y) == Mean(Elements(X, Y, LAMBDA x, y : Abs(x - y)))

\* F.huber_loss with delta = 1: d * d / 2 below delta, |d| - 1/2 above
HuberLoss(X, Y) ==
    Mean(Elements(X, Y, LAMBDA x, y :
            IF x = y THEN 0 ELSE 2 * Abs(x - y) - 1)) \div 2

\* F.hinge_embedding_loss with margin = 1
HingeEmbeddingLoss(X, Y) ==
    Mean(Elements(X, Y, LAMBDA x, y :
            (IF y # 1 THEN Max(1 - x, 0) ELSE 0) + (IF y # -1 THEN x ELSE 0)))

Dot(u, v) == SumSeq([c \in 1..Len(u) |-> u[c] * v[c]])

\* F.cosine_similarity(y_hat, log_y, 1).mean(0)
CosineSimilarity(X, Y) ==
    Mean([r \in 1..Len(X) |->
            Dot(X[r], Y[r])
              \div Max(ISqrt(Dot(X[r], X[r])) * ISqrt(Dot(Y[r], Y[r])), 1)])

\* line 346: self.loss_function; mse_loss is the default of the models
LossFunction(y_hat, log_y) == MSELoss(y_hat, log_y)

\* lines 372-376
BatchSize(batch_dict) ==
    IF ~batch_dict.isNone THEN Len(batch_dict.dict["dopant"]) ELSE 1

\* lines 379-389: the keys of metric_dict
AdditionalMetrics == {"mse", "mae", "huber", "hinge", "cos_sim"}

MetricKeys(prefix) ==
    {<< prefix, "loss" >>}
      \cup (IF prefix # "train" THEN {<< prefix, m >> : m \in AdditionalMetrics}
            ELSE {})

MetricDict(prefix, y_hat, log_y, loss) ==
    [k \in MetricKeys(prefix) |->
        CASE k[2] = "loss" -> loss
          [] k[2] = "mse" -> MSELoss(y_hat, log_y)
          [] k[2] = "mae" -> L1Loss(y_hat, log_y)
          [] k[2] = "huber" -> HuberLoss(y_hat, log_y)
          [] k[2] = "hinge" -> HingeEmbeddingLoss(y_hat, log_y)
          [] k[2] = "cos_sim" -> CosineSimilarity(y_hat, log_y)]

NoHead ==
    [ipc |-> "built", method |-> "get_representation", given |-> EmptyDict,
     kwargs |-> EmptyDict, warnings |-> 0, base |-> <<>>,
     module_kwargs |-> EmptyDict, y_hat |-> NoOut, mask |-> {},
     prefix |-> "none", log |-> FALSE, log_y |-> <<>>, stepped |-> FALSE,
     loss |-> 0, batch_size |-> 0, metric_dict |-> EmptyDict, logged |-> <<>>]

----------------------------------------------------------------------------
(* AugmentHeteroDCVModel: the data hold a graph and its subdivided graph.  *)
(* keys is the order of data.edge_index_dict.keys(), sub_keys the order of *)
(* data.subdivided_edge_index_dict.keys(); the i-th subdivided edge list   *)
(* is the one of relation keys[i].                                         *)

SubName(t) ==
    CASE t = "dopant" -> "subdivided_dopant"
      [] t = "interaction" -> "subdivided_interaction"
      [] t = "intraaction" -> "subdivided_intraaction"

SubRel(rel) == << SubName(rel[1]), rel[2], SubName(rel[3]) >>

AugSample(orig, sub, keys, sub_keys) ==
    [orig |-> orig, sub |-> sub, keys |-> keys, sub_keys |-> sub_keys]

NoAugData == AugSample(NoData, NoData, <<>>, <<>>)

\* what the data loader yields: single graphs and batches; the subdivided
\* keys carry their own names, or the names of edge_index_dict in the same
\* or in another order
AugPool ==
    {AugSample(Sample(<<ThreeAndOne>>, FALSE, "none"),
               Sample(<<ThreeShellsThree>>, FALSE, "none"), Rels, ks) :
        ks \in {[i \in 1..Len(Rels) |-> SubRel(Rels[i])], Rels,
                << RelID, RelDI, RelDA, RelAD >>}}
      \cup
    {AugSample(Sample(<<OneShellTwo, TwoShellsTwo>>, TRUE, "none"),
               Sample(gs, TRUE, "none"), Rels,
               [i \in 1..Len(Rels) |-> SubRel(Rels[i])]) :
        gs \in {<<OneShellTwo, TwoShellsTwo>>, <<TwoShellsThree, ThreeShellsThree>>}}

\* a dict keeps its entries in insertion order; a deleted entry leaves a
\* hole until the table is rebuilt
Entry(k, v) == [key |-> k, value |-> v, live |-> TRUE]

LiveEntries(t) == {j \in 1..Len(t) : t[j].live}

Used(t) == Cardinality(LiveEntries(t))

Find(t, k) == {j \in LiveEntries(t) : t[j].key = k}

Keys(t) == {t[j].key : j \in LiveEntries(t)}

Items(t) == [k \in Keys(t) |-> t[CHOOSE j \in Find(t, k) : TRUE].value]

Compact(t) == SelectSeq(t, LAMBDA e : e.live)

\* d.pop(k) of a key that is present
Pop(t, k) == [j \in 1..Len(t) |-> IF j \in Find(t, k) THEN [t[j] EXCEPT !.live = FALSE] ELSE t[j]]

\* d[k] = v: the entry of a present key is overwritten, a new key is
\* appended, after the table is rebuilt when it has no free slot
SetItem(t, k, v, rebuild) ==
    IF Find(t, k) # {}
    THEN [j \in 1..Len(t) |-> IF j \in Find(t, k) THEN [t[j] EXCEPT !.value = v] ELSE t[j]]
    ELSE Append(IF rebuild THEN Compact(t) ELSE t, Entry(k, v))

\* next() of a key iterator at position pos made when the dict held `used`
\* entries: the size check, then the next live entry
NextEntries(t, pos) == {j \in LiveEntries(t) : j > pos}

NextPos(t, pos) == CHOOSE j \in NextEntries(t, pos) : \A h \in NextEntries(t, pos) : j <= h

\* line 471: the dict of the data itself, not a copy
SubdividedEdges(d) ==
    [i \in 1..Len(d.sub_keys) |->
        Entry(d.sub_keys[i], GetInputs(d.sub).edge_index_dict[d.keys[i]])]

\* lines 448-460
InputDict(d) == GetInputs(d.orig)

\* lines 462-474, after the loop of lines 476-477
AugmentedInputDict(d, t) == [GetInputs(d.sub) EXCEPT !.edge_index_dict = Items(t)]

\* lines 399-411 and 428-432: what the first call of the representation
\* module receives
FirstArgs(input_dict, augmented_input_dict) ==
    BindPositional(RepresentationParams,
        [i \in 1..Len(ForwardPasses) |->
            IF ForwardPasses[i] = "batch_dict"
            THEN augmented_input_dict["batch_dict"]
            ELSE input_dict[ForwardPasses[i]]])

\* lines 414-426 and 435-441: the second call
SecondArgs(input_dict, augmented_input_dict) ==
    BindPositional(RepresentationParams,
        [i \in 1..Len(ForwardPasses) |-> augmented_input_dict[ForwardPasses[i]]])

\* forward(self, input_dict, augmented_input_dict), lines 396-398
AugForwardParams == << "input_dict", "augmented_input_dict" >>

\* line 489: self(input_dict, augmented_input_dict)
EvaluateStepArgs(inputs) == << inputs[1], inputs[2] >>

\* line 508: self(self.get_inputs(batch)), the pair is one argument
PredictStepArgs(inputs) == << inputs >>

SelfArgs(method, inputs) ==
    IF method = "predict_step" THEN PredictStepArgs(inputs) ELSE EvaluateStepArgs(inputs)

\* a call with fewer positional arguments than parameters is a TypeError
MissingArgument(names, args) == Len(args) < Len(names)

\* line 492: sklearn's euclidean_distances of every pair of rows
EuclideanDistances(X, Y) ==
    [i \in 1..Len(X) |->
        [j \in 1..Len(Y) |->
            ISqrt(SumSeq([c \in 1..Len(X[i]) |->
                            (X[i][c] - Y[j][c]) * (X[i][c] - Y[j][c])]))]]

----------------------------------------------------------------------------
(* util/training.py: train_uv_model, train_uv_model_augment and            *)
(* NPMCTrainer.train_one_model.  A data module is its batch_size and the   *)
(* length of each data set (0 for a data set that is None); a metric that  *)
(* is divided is kept as a fraction.                                       *)

MaxSamples == 3

TrainFunctions == {"train_uv_model", "train_uv_model_augment"}

\* what trainer.fit or the training function may raise: KeyboardInterrupt
\* derives from BaseException, the others from Exception
Raisable == {"KeyboardInterrupt", "RuntimeError", "ValueError"}

IsException(e) == e \in {"RuntimeError", "ValueError", "NameError", "UnboundLocalError"}

\* lines 236-243: `except Exception as e` catches e, and the handler lets
\* it pass when it is a KeyboardInterrupt
CaughtByFit(e) == IsException(e)

AbsorbedByFit(e) == CaughtByFit(e) /\ e = "KeyboardInterrupt"

\* the prefixes and data sets of lines 249-312, in their order
Splits == << "train_eval", "val", "test", "iid_test" >>

DataModule(batch_size, train, val, test, iid_test) ==
    [batch_size |-> batch_size,
     len |-> [k \in Range(Splits) |->
                CASE k = "train_eval" -> train
                  [] k = "val" -> val
                  [] k = "test" -> test
                  [] k = "iid_test" -> iid_test]]

DataModules ==
    {DataModule(b, t, v, e, i) :
        b \in 1..2, t \in {2}, v \in {0, MaxSamples}, e \in {0, 2, MaxSamples},
        i \in {0, MaxSamples}}

\* a DataLoader with drop_last=False: the sizes of its batches
BatchSizes(len, batch_size) ==
    [i \in 1..((len + batch_size - 1) \div batch_size) |->
        IF i * batch_size <= len THEN batch_size ELSE len - (i - 1) * batch_size]

\* lines 262, 279, 296: `is not None`; the training set is always there
HasDataset(dm, split) == split = "train_eval" \/ dm.len[split] # 0

NumBatches(dm, split) == Len(BatchSizes(dm.len[split], dm.batch_size))

\* lines 254-257 against 266-270: what a batch metric is multiplied by,
\* apart from the division
Weight(dm, split) == IF split = "train_eval" THEN 1 ELSE dm.batch_size

\* line 251: factor = 1 / len(train_dataloader); lines 275, 292, 311: the
\* division by len(dataset)
Divisor(dm, split) ==
    IF split = "train_eval" THEN NumBatches(dm, split) ELSE dm.len[split]

\* the loss of the model on batch number b (from 0) of a data set
BatchLoss(seed, b) == 1 + 3 * ((seed + b) % 2)

\* the dictionary model._step returns for a batch whose loss is m
LossDict(split, m) ==
    [k \in MetricKeys(split) |-> IF k[2] = "loss" THEN m ELSE m + 1]

\* lines 254-257: metrics[key] += value * weight, first use included
Accumulate(acc, loss_d, weight) ==
    [k \in DOMAIN acc \cup DOMAIN loss_d |->
        (IF k \in DOMAIN acc THEN acc[k] ELSE 0)
          + (IF k \in DOMAIN loss_d THEN loss_d[k] * weight ELSE 0)]

Fractions(acc, den) == [k \in DOMAIN acc |-> [num |-> acc[k], den |-> den]]

NoJob == [pc |-> "idle", printed |-> <<>>, error |-> "none"]

NoRun ==
    [pc |-> "idle", fn |-> "none", dm |-> DataModule(1, 0, 0, 0, 0),
     seed |-> 0, fit |-> "none", save_checkpoints |-> TRUE, split |-> 1, batch |-> 0,
     acc |-> EmptyDict, batches |-> <<>>, logged |-> <<>>, finished |-> 0,
     error |-> "none", job |-> NoJob]

----------------------------------------------------------------------------
(* discretized_graph.DiscreteGraphModel.__init__.  A module is a record of *)
(* its kind and, where it has them, its input and output widths.           *)

\* line 16: input_channels
InputChannels == 3

\* the values readout_operation is given
ReadoutOperations == {"attn", "ATTN", "set2set", "Set2Set", "sum", "Sum", "mean", "max"}

\* str.lower() on these values
Lower(str) ==
    CASE str = "ATTN" -> "attn"
      [] str = "Set2Set" -> "set2set"
      [] str = "Sum" -> "sum"
      [] OTHER -> str

\* lines 24, 35-36: mlp_layers, None for the default; small widths stand
\* for [128, 256]
DefaultMlpLayers == << 3, 4 >>

MlpLayersGiven ==
    {[isNone |-> TRUE, layers |-> <<>>], [isNone |-> FALSE, layers |-> <<>>],
     [isNone |-> FALSE, layers |-> << 3 >>]}

\* line 28: mpnn_channels
MpnnChannelsGiven == {<< 2 >>, << 2, 3 >>}

DgmArgs ==
    [n_output_nodes : {1, 4}, activation_module : {"SiLU", "ReLU"},
     mlp_layers : MlpLayersGiven, mpnn_channels : MpnnChannelsGiven,
     readout_operation : ReadoutOperations]

Last(seq) == seq[Len(seq)]

\* lines 48-55: a convolution and an activation per pair of channels
MpnnModules(input_channels, mpnn_channels) ==
    LET channels == << input_channels >> \o mpnn_channels
    IN  Flatten([i \in 1..(Len(channels) - 1) |->
            << [kind |-> "GATv2Conv", in |-> channels[i], out |-> channels[i + 1]],
               [kind |-> "Activation"] >>])

\* lines 59-60
MlpSizes(mpnn_channels, mlp_layers, n_output_nodes) ==
    << Last(mpnn_channels) * 2 >> \o mlp_layers \o << n_output_nodes >>

\* lines 69-78: the initialisation of a linear layer
WeightInit(activation_module) ==
    CASE activation_module = "SiLU" -> "xavier_uniform"
      [] activation_module = "ReLU" -> "kaiming_uniform"
      [] OTHER -> "default"

\* lines 58-78: dropout, linear layer and activation per pair of sizes,
\* without the last activation
MlpModules(sizes, activation_module) ==
    LET all == Flatten([i \in 1..(Len(sizes) - 1) |->
                   << [kind |-> "Dropout"],
                      [kind |-> "Linear", in |-> sizes[i], out |-> sizes[i + 1],
                       init |-> WeightInit(activation_module)],
                      [kind |-> "Activation"] >>])
    IN  SubSeq(all, 1, Len(all) - 1)

\* lines 80-102: the readout and the width of what it returns for node
\* features of width c
ReadoutModule(readout_operation, c) ==
    CASE Lower(readout_operation) = "attn" ->
            [kind |-> "AttentionalAggregation", in |-> c, out |-> 2 * c]
      [] Lower(readout_operation) = "set2set" ->
            [kind |-> "Set2Set", in |-> c, out |-> 2 * c]
      [] Lower(readout_operation) = "sum" ->
            [kind |-> "SumAggregation", in |-> c, out |-> c]
      [] OTHER ->
            [kind |-> "MeanAggregation", in |-> c, out |-> c]

NoDgm ==
    [pc |-> "idle",
     args |-> [n_output_nodes |-> 0, activation_module |-> "none",
               mlp_layers |-> [isNone |-> TRUE, layers |-> <<>>],
               mpnn_channels |-> <<>>, readout_operation |-> "none"],
     mlp_layers |-> <<>>, mpnn_modules |-> <<>>, mlp_modules |-> <<>>,
     readout |-> << >>, nn |-> <<>>]

NoAug ==
    [pc |-> "idle", method |-> "none", data |-> NoAugData, new_keys |-> <<>>,
     table |-> <<>>, i |-> 0, pos |-> 0, used |-> 0, rebuilt |-> FALSE,
     error |-> "none", input_dict |-> NoArgs, augmented_input_dict |-> NoArgs,
     out |-> NoOut, subdivision_out |-> NoOut, loss |-> <<>>]

----------------------------------------------------------------------------
(* The state machine *)

NoLast ==
    [valid |-> FALSE, inp |-> NoArgs, training |-> FALSE, raised |-> FALSE,
     out |-> NoOut, nonfinite |-> {}]

NoCond == [v |-> <<>>, nonfinite |-> {}]

\* after construction: the module is in training mode, lines 35-100
InitModule(names, configs) ==
    /\ cfg \in configs
    /\ params \in 0..MaxSeed
    /\ training = TRUE
    /\ bn = BNLayers(cfg)
    /\ pool \in names
    /\ pc = "idle"
    /\ data = NoData
    /\ inp = NoArgs
    /\ x_dict = EmptyDict
    /\ nonfinite = EmptyDict
    /\ cond = [interaction |-> NoCond, intraaction |-> NoCond]
    /\ round = 0
    /\ out = NoOut
    /\ outNonfinite = {}
    /\ last = NoLast
    /\ calls = 0
    /\ aug = NoAug
    /\ proc = NoProc
    /\ run = NoRun
    /\ dgm = NoDgm

\* the representation module on its own, or inside a model that is built
InitFrom(names, configs) == InitModule(names, configs) /\ head = NoHead

InitWith(names) == InitFrom(names, Configs)

Init == InitWith({"single"})

Self == Module(cfg, params, bn, training)

\* nn.Module.train() / eval()
SetTraining ==
    /\ pc = "idle"
    /\ head.ipc = "built"
    /\ aug.pc \in {"idle", "returned", "raised"}
    /\ training' = ~training
    /\ UNCHANGED <<cfg, params, bn, pool, pc, data, inp, x_dict, nonfinite,
                   cond, round, out, outNonfinite, last, calls>>
    /\ UNCHANGED <<head, aug, proc, run, dgm>>

\* the caller passes the arguments of one sample to forward
Call ==
    /\ pc = "idle"
    /\ head.ipc = "built"
    /\ calls < MaxCalls
    /\ \E d \in Pool(pool) :
          /\ data' = d
          /\ inp' = GetInputs(d)
    /\ pc' = "dopant"
    /\ calls' = calls + 1
    /\ x_dict' = EmptyDict
    /\ nonfinite' = EmptyDict
    /\ cond' = [interaction |-> NoCond, intraaction |-> NoCond]
    /\ round' = 0
    /\ out' = NoOut
    /\ outNonfinite' = {}
    /\ head' = [head EXCEPT !.method = "get_representation",
                            !.y_hat = NoOut, !.mask = {}]
    /\ UNCHANGED <<cfg, params, training, bn, pool, last, aug, proc, run, dgm>>

\* an exception leaves forward: its locals are gone, nothing is returned
Raise ==
    /\ pc' = "raised"
    /\ x_dict' = EmptyDict
    /\ nonfinite' = EmptyDict
    /\ out' = NoOut
    /\ outNonfinite' = {}

With(f, t, v) == [k \in (DOMAIN f) \cup {t} |-> IF k = t THEN v ELSE f[k]]

\* lines 117-150
DopantStep ==
    /\ pc = "dopant"
    /\ IF DopantIndexError(inp)
       THEN Raise /\ UNCHANGED bn
       ELSE /\ bn' = [bn EXCEPT !.dopant_norm =
                        BatchNormNext(@, training, DopantPreNorm(Self, inp), {})]
            /\ IF BatchNormRaises(training, Len(inp.dopant_types))
               THEN Raise
               ELSE /\ x_dict' = With(x_dict, "dopant", DopantAttr(Self, inp))
                    /\ nonfinite' = With(nonfinite, "dopant",
                            BatchNormNonfinite(bn.dopant_norm, training,
                                               Len(inp.dopant_types), {}))
                    /\ pc' = "interaction"
                    /\ UNCHANGED <<out, outNonfinite>>
    /\ UNCHANGED <<cfg, params, training, pool, data, inp, cond, round, last, calls>>
    /\ UNCHANGED <<head, aug, proc, run, dgm>>

\* lines 152-202
InteractionStep ==
    /\ pc = "interaction"
    /\ IF InteractionIndexError(cfg, inp)
       THEN Raise /\ UNCHANGED <<bn, cond>>
       ELSE /\ bn' = [bn EXCEPT !.interaction_norm =
                        BatchNormNext(@, training, InteractionPreNorm(cfg, inp),
                                      InteractionPreNormNonfinite(cfg, inp))]
            /\ IF BatchNormRaises(training, Len(inp.interaction_dopant_indices))
               THEN Raise /\ UNCHANGED cond
               ELSE /\ cond' = [cond EXCEPT !.interaction =
                                  [v |-> InteractionCond(Self, inp),
                                   nonfinite |-> InteractionCondNonfinite(Self, inp)]]
                    /\ x_dict' = With(x_dict, "interaction", InteractionAttr(Self, inp))
                    /\ nonfinite' = With(nonfinite, "interaction",
                                         InteractionCondNonfinite(Self, inp))
                    /\ pc' = "intraaction"
                    /\ UNCHANGED <<out, outNonfinite>>
    /\ UNCHANGED <<cfg, params, training, pool, data, inp, round, last, calls>>
    /\ UNCHANGED <<head, aug, proc, run, dgm>>

\* lines 204-256
IntraactionStep ==
    /\ pc = "intraaction"
    /\ IF IntraactionIndexError(cfg, inp)
       THEN Raise /\ UNCHANGED <<bn, cond>>
       ELSE /\ bn' = [bn EXCEPT !.intraaction_norm =
                        BatchNormNext(@, training, IntraactionPreNorm(cfg, inp),
                                      IntraactionPreNormNonfinite(cfg, inp))]
            /\ IF BatchNormRaises(training, Len(inp.intraaction_dopant_indices))
               THEN Raise /\ UNCHANGED cond
               ELSE /\ cond' = [cond EXCEPT !.intraaction =
                                  [v |-> IntraactionCond(Self, inp),
                                   nonfinite |-> IntraactionCondNonfinite(Self, inp)]]
                    /\ x_dict' = With(x_dict, "intraaction", IntraactionAttr(Self, inp))
                    /\ nonfinite' = With(nonfinite, "intraaction",
                                         IntraactionCondNonfinite(Self, inp))
                    /\ pc' = "conv"
                    /\ UNCHANGED <<out, outNonfinite>>
    /\ UNCHANGED <<cfg, params, training, pool, data, inp, round, last, calls>>
    /\ UNCHANGED <<head, aug, proc, run, dgm>>

\* lines 259-264: one iteration of the loop
MessagePassing ==
    /\ pc = "conv"
    /\ LoopContinues(round, cfg.n_message_passing)
    /\ IF HeteroConvRaises(x_dict, inp.edge_index_dict)
       THEN Raise /\ UNCHANGED round
       ELSE /\ x_dict' = MessagePassingRound(params, ConvOfRound(round + 1),
                                             x_dict, inp.edge_index_dict)
            /\ nonfinite' = HeteroConvNonfinite(x_dict, nonfinite, inp.edge_index_dict)
            /\ round' = round + 1
            /\ UNCHANGED <<pc, out, outNonfinite>>
    /\ UNCHANGED <<cfg, params, training, bn, pool, data, inp, cond, last, calls>>
    /\ UNCHANGED <<head, aug, proc, run, dgm>>

\* lines 265-271
Aggregate ==
    /\ pc = "conv"
    /\ ~LoopContinues(round, cfg.n_message_passing)
    /\ IF AggregateRaises(x_dict, inp)
       THEN Raise
       ELSE /\ out' = FinalOut(x_dict, inp)
            /\ outNonfinite' = FinalNonfinite(x_dict, nonfinite, inp)
            /\ pc' = "done"
            /\ UNCHANGED <<x_dict, nonfinite>>
    /\ UNCHANGED <<cfg, params, training, bn, pool, data, inp, cond, round, last, calls>>
    /\ UNCHANGED <<head, aug, proc, run, dgm>>

\* the call is over: the caller has the result or the exception
Return ==
    /\ pc \in {"done", "raised"}
    /\ pc = "done" => head.method = "get_representation"
    /\ last' = [valid |-> TRUE, inp |-> inp, training |-> training,
                raised |-> (pc = "raised"), out |-> out, nonfinite |-> outNonfinite]
    /\ pc' = "idle"
    /\ x_dict' = EmptyDict
    /\ nonfinite' = EmptyDict
    /\ cond' = [interaction |-> NoCond, intraaction |-> NoCond]
    /\ round' = 0
    /\ UNCHANGED <<cfg, params, training, bn, pool, data, inp, out, outNonfinite, calls>>
    /\ UNCHANGED <<head, aug, proc, run, dgm>>

Next ==
    \/ SetTraining
    \/ Call
    \/ DopantStep
    \/ InteractionStep
    \/ IntraactionStep
    \/ MessagePassing
    \/ Aggregate
    \/ Return

Spec == Init /\ [][Next]_vars

InitBatch == InitWith({"batch"})
SpecBatch == InitBatch /\ [][Next]_vars

InitIndex == InitWith({"index"})
SpecIndex == InitIndex /\ [][Next]_vars

InitKeys == InitWith({"keys"})
SpecKeys == InitKeys /\ [][Next]_vars

InitDegenerate == InitWith({"degenerate"})
SpecDegenerate == InitDegenerate /\ [][Next]_vars

InitEmpty == InitWith({"empty"})
SpecEmpty == InitEmpty /\ [][Next]_vars

InitMembership == InitWith({"membership"})
SpecMembership == InitMembership /\ [][Next]_vars

InitFlags == InitFrom({"flags"}, FlagConfigs)
SpecFlags == InitFlags /\ [][Next]_vars

----------------------------------------------------------------------------
(* Properties *)

\* the result of the running call, as Forward gives it
Returned == [raised |-> FALSE, out |-> out, nonfinite |-> outNonfinite]

Inverse(pi) == [j \in DOMAIN pi |-> CHOOSE k \in DOMAIN pi : pi[k] = j]
PermuteSeq(s, pi) == [k \in DOMAIN s |-> s[pi[k]]]

\* the arguments with the interaction-node list reordered: position k holds
\* the node that was at position pi[k], and the interaction endpoints of
\* the two interaction relations are renumbered
PermuteInteraction(a, pi) ==
    [a EXCEPT
        !.interaction_types = PermuteSeq(@, pi),
        !.interaction_type_indices = PermuteSeq(@, pi),
        !.interaction_dopant_indices = PermuteSeq(@, pi),
        !.edge_index_dict =
            [rel \in DOMAIN @ |->
                CASE rel = RelDI ->
                        [k \in DOMAIN @[rel] |->
                            << @[rel][k][1], Inverse(pi)[@[rel][k][2] + 1] - 1 >>]
                  [] rel = RelID ->
                        [k \in DOMAIN @[rel] |->
                            << Inverse(pi)[@[rel][k][1] + 1] - 1, @[rel][k][2] >>]
                  [] OTHER -> @[rel]]]

PermuteIntraaction(a, pi) ==
    [a EXCEPT
        !.intraaction_types = PermuteSeq(@, pi),
        !.intraaction_type_indices = PermuteSeq(@, pi),
        !.intraaction_dopant_indices = PermuteSeq(@, pi),
        !.edge_index_dict =
            [rel \in DOMAIN @ |->
                CASE rel = RelDA ->
                        [k \in DOMAIN @[rel] |->
                            << @[rel][k][1], Inverse(pi)[@[rel][k][2] + 1] - 1 >>]
                  [] rel = RelAD ->
                        [k \in DOMAIN @[rel] |->
                            << Inverse(pi)[@[rel][k][1] + 1] - 1, @[rel][k][2] >>]
                  [] OTHER -> @[rel]]]

(* C1: when forward has returned, forward on the same arguments with the   *)
(* interaction-node list permuted in any way (types, type indices, dopant  *)
(* indices and the interaction endpoints of the edges together) returns    *)
(* the same pooled output, and so does any permutation of the intraaction  *)
(* list.                                                                   *)
C1_PermutationInvariant ==
    pc = "done" =>
        /\ \A pi \in Perms(Len(inp.interaction_dopant_indices)) :
              \A permuted \in {PermuteInteraction(inp, pi)} :
                 Forward(Self, permuted) = Returned
        /\ \A pi \in Perms(Len(inp.intraaction_dopant_indices)) :
              \A permuted \in {PermuteIntraaction(inp, pi)} :
                 Forward(Self, permuted) = Returned

C1_Witness ==
    /\ pc = "done"
    /\ round >= 1
    /\ Len(inp.interaction_dopant_indices) >= 3
    /\ Len(inp.intraaction_dopant_indices) >= 3
    /\ \E pi \in Perms(Len(inp.interaction_dopant_indices)) :
          PermuteInteraction(inp, pi).interaction_dopant_indices
              # inp.interaction_dopant_indices

(* C2: in evaluation mode, forward on a batch of N graphs returns N rows,  *)
(* and row i is what forward returns for graph i alone, without a          *)
(* batch_dict, on the same module.                                         *)
C2_BatchConsistent ==
    (data.batched /\ ~training) =>
        /\ pc # "raised"
        /\ pc = "done" =>
              /\ Len(out) = Len(data.graphs)
              /\ \A i \in 1..Len(data.graphs) :
                    LET alone == Forward(Self, data.graphs[i])
                    IN  /\ ~alone.raised
                        /\ alone.out = << out[i] >>
                        /\ (1 \in alone.nonfinite) <=> (i \in outNonfinite)

C2_Witness ==
    /\ pc = "done"
    /\ data.batched
    /\ ~training
    /\ Len(data.graphs) >= 2
    /\ round >= 1
    /\ \E i, j \in 1..Len(out) : out[i] # out[j]

(* C3: a call in evaluation mode that follows a call in evaluation mode on *)
(* the same input returns what that call returned.                         *)
C3_Idempotent ==
    (/\ pc = "done"
     /\ ~training
     /\ last.valid
     /\ ~last.training
     /\ last.inp = inp) =>
        /\ ~last.raised
        /\ out = last.out
        /\ outNonfinite = last.nonfinite

C3_Witness ==
    /\ pc = "done"
    /\ ~training
    /\ last.valid
    /\ ~last.training
    /\ ~last.raised
    /\ last.inp = inp
    /\ round >= 1
    /\ Len(inp.interaction_dopant_indices) >= 2

(* C4: no step changes the parameters or the hyper-parameters; no step of  *)
(* a forward pass changes its arguments; the buffers of the three batch    *)
(* norms change only in training mode and only in the step of their layer. *)
C4_Frame ==
    [][/\ params' = params
       /\ cfg' = cfg
       /\ pc # "idle" => (inp' = inp /\ data' = data)
       /\ ~training => bn' = bn
       /\ bn'.dopant_norm # bn.dopant_norm => pc = "dopant"
       /\ bn'.interaction_norm # bn.interaction_norm => pc = "interaction"
       /\ bn'.intraaction_norm # bn.intraaction_norm => pc = "intraaction"
       /\ DOMAIN bn' = DOMAIN bn]_vars

C4_Witness ==
    /\ pc = "done"
    /\ ~training
    /\ last.valid
    /\ last.training
    /\ \A l \in DOMAIN bn : bn[l] # BNLayers(cfg)[l]

\* the interaction set, or the intraaction set, of the arguments is empty
NoInteraction(a) ==
    /\ Len(a.interaction_dopant_indices) = 0
    /\ Len(a.interaction_types) = 0
    /\ Len(a.interaction_type_indices) = 0
    /\ \A rel \in {RelDI, RelID} :
          rel \in DOMAIN a.edge_index_dict /\ Len(a.edge_index_dict[rel]) = 0

NoIntraaction(a) ==
    /\ Len(a.intraaction_dopant_indices) = 0
    /\ Len(a.intraaction_types) = 0
    /\ Len(a.intraaction_type_indices) = 0
    /\ \A rel \in {RelDA, RelAD} :
          rel \in DOMAIN a.edge_index_dict /\ Len(a.edge_index_dict[rel]) = 0

EmptyBranch == pc # "idle" /\ (NoInteraction(inp) \/ NoIntraaction(inp))

\* a batch norm gets exactly one row
OneRow(a) ==
    \/ Len(a.dopant_types) = 1
    \/ Len(a.interaction_dopant_indices) = 1
    \/ Len(a.intraaction_dopant_indices) = 1

(* C5 as stated: forward never raises when the interaction set or the      *)
(* intraaction set is empty, in either mode.                               *)
C5_NeverRaises == EmptyBranch => pc # "raised"

(* C5: with an empty interaction or intraaction set, forward raises        *)
(* exactly when the module is in training mode and one of the three batch  *)
(* norms gets exactly one row; otherwise the empty branch yields an empty  *)
(* feature tensor, before and after every round, and one output row is     *)
(* returned.                                                               *)
C5_EmptyBranch ==
    EmptyBranch =>
        /\ pc = "raised" => (training /\ OneRow(inp))
        /\ pc = "done" => (~(training /\ OneRow(inp)) /\ Len(out) = 1)
        /\ (pc \in {"intraaction", "conv", "done"} /\ NoInteraction(inp)) =>
              x_dict["interaction"] = <<>>
        /\ (pc \in {"conv", "done"} /\ NoIntraaction(inp)) =>
              x_dict["intraaction"] = <<>>

C5_Witness ==
    /\ pc = "done"
    /\ training
    /\ NoInteraction(inp)
    /\ ~NoIntraaction(inp)
    /\ round >= 1
    /\ x_dict["interaction"] = <<>>

(* C6: after each round the feature dictionary holds the three node types  *)
(* with the node counts of the arguments and width embed_dim.              *)
C6_AllTypesKept ==
    (pc \in {"conv", "done"} /\ round >= 1) =>
        /\ DOMAIN x_dict = NodeTypes
        /\ Len(x_dict["dopant"]) = Len(inp.dopant_types)
        /\ Len(x_dict["interaction"]) = Len(inp.interaction_dopant_indices)
        /\ Len(x_dict["intraaction"]) = Len(inp.intraaction_dopant_indices)
        /\ \A t \in NodeTypes :
              \A r \in 1..Len(x_dict[t]) : Len(x_dict[t][r]) = EmbedDim

(* C7: a call whose index tensors disagree with their role raises in its   *)
(* first step: it never gets past the dopant stage, leaves the buffers of  *)
(* the batch norms alone and returns nothing.                              *)
C7_FailsFast ==
    (pc # "idle" /\ data.defect # "none") =>
        /\ pc \in {"dopant", "raised"}
        /\ x_dict = EmptyDict
        /\ out = NoOut
        /\ calls = 1 => bn = BNLayers(cfg)

(* C8: no row of the conditioning tensor of the interaction or the         *)
(* intraaction branch, and no row of the output, is inf or nan.            *)
C8_Finite ==
    /\ cond.interaction.nonfinite = {}
    /\ cond.intraaction.nonfinite = {}
    /\ outNonfinite = {}

\* the state after k rounds from x0: round j applies the convolutions built
\* in the j-th iteration of __init__, then SiLU to every node type
RECURSIVE AfterRounds(_, _, _, _)
AfterRounds(p, x0, edges, k) ==
    IF k = 0 THEN Value(x0)
    ELSE CHOOSE x \in {Dict(SiLUDict(HeteroConv(p, k, before, edges))) :
                          before \in {AfterRounds(p, x0, edges, k - 1)}} : TRUE

(* C9: the loop has run at most n_message_passing rounds; after k rounds   *)
(* the state is the conditioned features taken through the convolutions of *)
(* rounds 1..k in that order, each followed by SiLU; the aggregator runs   *)
(* after exactly n_message_passing rounds, on that state; and each step of *)
(* the loop is one more round.                                             *)
C9_Rounds ==
    /\ [](/\ round <= cfg.n_message_passing
          /\ pc = "conv" =>
                x_dict = AfterRounds(params, ConditionedFeatures(Self, inp),
                                     inp.edge_index_dict, round)
          /\ pc = "done" =>
                /\ round = cfg.n_message_passing
                /\ \A x \in {AfterRounds(params, ConditionedFeatures(Self, inp),
                                         inp.edge_index_dict,
                                         cfg.n_message_passing)} :
                      out = SumAggregation(x["dopant"], HasDopantIndex(inp),
                                           DopantIndex(inp)))
    /\ [][(pc = "conv" /\ pc' = "conv") => round' = round + 1]_vars

C9_Witness ==
    /\ pc = "done"
    /\ round = 2
    /\ Len(inp.interaction_dopant_indices) >= 2
    /\ x_dict # AfterRounds(params, ConditionedFeatures(Self, inp),
                            inp.edge_index_dict, 1)

(* C10: the output does not depend on the interaction and intraaction      *)
(* features after the last round: it is the same with those features       *)
(* replaced by zeros, and the same when the last round runs without the    *)
(* dopant->interaction and dopant->intraaction convolutions.               *)
C10_DopantOnly ==
    (pc = "done" /\ round >= 1) =>
        /\ FinalOut([x_dict EXCEPT
                        !["interaction"] = [r \in DOMAIN @ |-> Zeros(EmbedDim)],
                        !["intraaction"] = [r \in DOMAIN @ |-> Zeros(EmbedDim)]],
                    inp) = out
        /\ \A before \in {AfterRounds(params, ConditionedFeatures(Self, inp),
                                        inp.edge_index_dict, round - 1)} :
              \A lastRound \in
                    {MessagePassingRound(params, round, before,
                        Without(inp.edge_index_dict, {RelDI, RelDA}))} :
                 FinalOut(lastRound, inp) = out

C10_Witness ==
    /\ pc = "done"
    /\ round >= 1
    /\ Len(x_dict["interaction"]) >= 2
    /\ Len(x_dict["intraaction"]) >= 2
    /\ \E r \in DOMAIN x_dict["interaction"] :
          x_dict["interaction"][r] # Zeros(EmbedDim)

----------------------------------------------------------------------------
(* TransformerFeatureProcessor.process_doc as steps *)

\* line 28-37: the processor is handed a document
ProcessDoc ==
    /\ proc.pc \in {"idle", "done"}
    /\ \E doc \in Docs :
          proc' = [NoProc EXCEPT !.pc = "loop", !.doc = doc]
    /\ UNCHANGED <<cfg, params, training, bn, pool, pc, data, inp, x_dict,
                   nonfinite, cond, round, out, outNonfinite, last, calls,
                   head, aug, run, dgm>>

\* lines 38-56: one iteration of the loop over the layers.  A layer the
\* document does not have raises IndexError inside the try, and the except
\* branch appends zeros; the lower bound then stays.
ProcessLayer ==
    /\ proc.pc = "loop"
    /\ proc.layer < MaxLayers
    /\ LET layer == proc.layer
           n == Len(PossibleElements)
           has == layer < Len(proc.doc.constraints)
           radius == proc.doc.constraints[layer + 1]
           volume == GetVolume(radius) - GetVolume(proc.r_lower_bound)
           concs == proc.doc.dopant_concentration
       IN  proc' =
             [proc EXCEPT
                !.layer = layer + 1,
                !.r_lower_bound = IF has THEN radius ELSE @,
                !.shells = IF has
                           THEN Append(@, [radius |-> radius,
                                           r_lower_bound |-> proc.r_lower_bound,
                                           volume |-> volume])
                           ELSE @,
                !.volumes = @ \o [i \in 1..n |-> IF has THEN Scaled(volume) ELSE Zero],
                !.compositions =
                    @ \o [i \in 1..n |->
                            IF /\ layer < Len(concs)
                               /\ PossibleElements[i] \in DOMAIN concs[layer + 1]
                            THEN concs[layer + 1][PossibleElements[i]]
                            ELSE 0]]
    /\ UNCHANGED <<cfg, params, training, bn, pool, pc, data, inp, x_dict,
                   nonfinite, cond, round, out, outNonfinite, last, calls,
                   head, aug, run, dgm>>

\* line 58: the three rows are stacked and returned
ProcessReturn ==
    /\ proc.pc = "loop"
    /\ proc.layer = MaxLayers
    /\ proc' = [proc EXCEPT !.pc = "done",
                            !.x = <<Types, proc.volumes, proc.compositions>>]
    /\ UNCHANGED <<cfg, params, training, bn, pool, pc, data, inp, x_dict,
                   nonfinite, cond, round, out, outNonfinite, last, calls,
                   head, aug, run, dgm>>

\* the representation module and the feature processor, side by side
NextVolume ==
    \/ Next
    \/ ProcessDoc
    \/ ProcessLayer
    \/ ProcessReturn

VolumeConfigs == {Config(1, vol, vol, FALSE, FALSE) : vol \in BOOLEAN}

InitVolume == InitFrom({"volume"}, VolumeConfigs)
SpecVolume == InitVolume /\ [][NextVolume]_vars

----------------------------------------------------------------------------
(* HeteroDCVModel as steps *)

\* lines 282-286: an n_input_nodes keyword is warned about and deleted
InitCheck ==
    /\ head.ipc = "new"
    /\ head' = [head EXCEPT
                   !.ipc = "super",
                   !.warnings = IF "n_input_nodes" \in DOMAIN head.kwargs
                                THEN @ + 1 ELSE @,
                   !.kwargs = IF "n_input_nodes" \in DOMAIN head.kwargs
                              THEN DropInputNodes(@) ELSE @]
    /\ UNCHANGED <<cfg, params, training, bn, pool, pc, data, inp, x_dict,
                   nonfinite, cond, round, out, outNonfinite, last, calls,
                   aug, proc, run, dgm>>

\* line 288: the base class is initialised
InitSuper ==
    /\ head.ipc = "super"
    /\ head' = IF DuplicateKeyword(head.kwargs)
               THEN [head EXCEPT !.ipc = "raised"]
               ELSE [head EXCEPT !.ipc = "modules",
                                 !.base = Append(@, SuperKeywords(head.kwargs))]
    /\ UNCHANGED <<cfg, params, training, bn, pool, pc, data, inp, x_dict,
                   nonfinite, cond, round, out, outNonfinite, last, calls,
                   aug, proc, run, dgm>>

\* lines 290-298: the representation module, in training mode, and the
\* readout are built
InitModules ==
    /\ head.ipc = "modules"
    /\ head' = [head EXCEPT !.ipc = "built", !.module_kwargs = head.kwargs]
    /\ bn' = BNLayers(cfg)
    /\ training' = TRUE
    /\ UNCHANGED <<cfg, params, pool, pc, data, inp, x_dict, nonfinite, cond,
                   round, out, outNonfinite, last, calls, aug, proc, run, dgm>>

\* lines 345, 362: self(**self.get_inputs(batch)), up to line 319
CallForward ==
    /\ pc = "idle"
    /\ head.ipc = "built"
    /\ calls < MaxCalls
    /\ \E d \in Pool(pool) :
          /\ data' = d
          /\ inp' = ForwardInputs(GetInputs(d))
    /\ pc' = "dopant"
    /\ calls' = calls + 1
    /\ x_dict' = EmptyDict
    /\ nonfinite' = EmptyDict
    /\ cond' = [interaction |-> NoCond, intraaction |-> NoCond]
    /\ round' = 0
    /\ out' = NoOut
    /\ outNonfinite' = {}
    /\ head' = [head EXCEPT !.method = "forward", !.y_hat = NoOut, !.mask = {}]
    /\ UNCHANGED <<cfg, params, training, bn, pool, last, aug, proc, run, dgm>>

\* line 320: out = self.readout(representation)
ReadoutStep ==
    /\ pc = "done"
    /\ head.method \in {"forward", "_step"}
    /\ \E mask \in SUBSET (1..ReadoutLayers[1]) :
          /\ training \/ mask = {}
          /\ head' = [head EXCEPT
                         !.mask = mask,
                         !.y_hat = ReadoutRows(params, head.kwargs, out,
                                               training, mask)]
    /\ pc' = "readout"
    /\ UNCHANGED <<cfg, params, training, bn, pool, data, inp, x_dict,
                   nonfinite, cond, round, out, outNonfinite, last, calls,
                   aug, proc, run, dgm>>

\* line 321: return out
ReturnForward ==
    /\ pc = "readout"
    /\ head.method = "forward"
    /\ last' = [valid |-> TRUE, inp |-> inp, training |-> training,
                raised |-> FALSE, out |-> out, nonfinite |-> outNonfinite]
    /\ pc' = "idle"
    /\ x_dict' = EmptyDict
    /\ nonfinite' = EmptyDict
    /\ cond' = [interaction |-> NoCond, intraaction |-> NoCond]
    /\ round' = 0
    /\ UNCHANGED <<cfg, params, training, bn, pool, data, inp, out,
                   outNonfinite, calls, head, aug, proc, run, dgm>>

NextModel ==
    \/ InitCheck
    \/ InitSuper
    \/ InitModules
    \/ Next
    \/ CallForward
    \/ ReadoutStep
    \/ ReturnForward

ModelConfigs == {Config(1, f, f, f, f) : f \in BOOLEAN}

\* HeteroDCVModel(**kwargs) has just been called
InitModel ==
    /\ InitModule({"model"}, ModelConfigs)
    /\ \E kw \in KwargsGiven :
          head = [NoHead EXCEPT !.ipc = "new", !.given = kw, !.kwargs = kw]

SpecModel == InitModel /\ [][NextModel]_vars

----------------------------------------------------------------------------
(* HeteroDCVModel._step *)

\* lines 365-370 and 345: _step calls _evaluate_step, which calls forward
StepCall ==
    /\ pc = "idle"
    /\ head.ipc = "built"
    /\ calls < MaxCalls
    /\ \E d \in Pool(pool) : \E prefix \in Prefixes : \E log \in BOOLEAN :
       \E target \in {-1, 1} :
          /\ data' = d
          /\ inp' = ForwardInputs(GetInputs(d))
          /\ head' = [head EXCEPT
                         !.method = "_step", !.y_hat = NoOut, !.mask = {},
                         !.prefix = prefix, !.log = log,
                         !.log_y = LogY(Len(d.graphs), target),
                         !.stepped = FALSE, !.loss = 0, !.batch_size = 0,
                         !.metric_dict = EmptyDict]
    /\ pc' = "dopant"
    /\ calls' = calls + 1
    /\ x_dict' = EmptyDict
    /\ nonfinite' = EmptyDict
    /\ cond' = [interaction |-> NoCond, intraaction |-> NoCond]
    /\ round' = 0
    /\ out' = NoOut
    /\ outNonfinite' = {}
    /\ UNCHANGED <<cfg, params, training, bn, pool, last, aug, proc, run, dgm>>

\* lines 346-347 and 372-392: the loss, the batch size, the metrics and
\* the call of log_dict
StepFinish ==
    /\ pc = "readout"
    /\ head.method = "_step"
    /\ \E loss \in {LossFunction(head.y_hat, head.log_y)} :
       \E batch_size \in {BatchSize(GetInputs(data).batch_dict)} :
       \E metric_dict \in {MetricDict(head.prefix, head.y_hat, head.log_y, loss)} :
          head' = [head EXCEPT
                      !.stepped = TRUE,
                      !.loss = loss,
                      !.batch_size = batch_size,
                      !.metric_dict = metric_dict,
                      !.logged = IF head.log
                                 THEN << [metrics |-> metric_dict,
                                          batch_size |-> batch_size] >>
                                 ELSE <<>>]
    /\ last' = [valid |-> TRUE, inp |-> inp, training |-> training,
                raised |-> FALSE, out |-> out, nonfinite |-> outNonfinite]
    /\ pc' = "idle"
    /\ x_dict' = EmptyDict
    /\ nonfinite' = EmptyDict
    /\ cond' = [interaction |-> NoCond, intraaction |-> NoCond]
    /\ round' = 0
    /\ UNCHANGED <<cfg, params, training, bn, pool, data, inp, out,
                   outNonfinite, calls, aug, proc, run, dgm>>

NextStep ==
    \/ SetTraining
    \/ StepCall
    \/ DopantStep
    \/ InteractionStep
    \/ IntraactionStep
    \/ MessagePassing
    \/ Aggregate
    \/ ReadoutStep
    \/ StepFinish
    \/ Return

\* the default flags of the representation module, one round
InitStep == InitFrom({"model"}, {Config(1, FALSE, FALSE, FALSE, FALSE)})

SpecStep == InitStep /\ [][NextStep]_vars

----------------------------------------------------------------------------
(* util/training.py *)

Others == <<cfg, params, training, bn, pool, pc, data, inp, x_dict,
            nonfinite, cond, round, out, outNonfinite, last, head, aug,
            proc, dgm>>

\* lines 540-558: train_one_model, up to the call of train_single_fn
JobCall ==
    /\ run.pc = "idle"
    /\ run.job.pc = "idle"
    /\ calls < MaxCalls
    /\ run' = [NoRun EXCEPT !.job = [NoJob EXCEPT !.pc = "training"]]
    /\ UNCHANGED calls
    /\ UNCHANGED Others

\* lines 172-232: the model, the logger, the callbacks and the trainer are
\* made
TrainCall ==
    /\ run.pc = "idle"
    /\ run.job.pc \in {"idle", "training"}
    /\ calls < MaxCalls
    /\ \E fn \in TrainFunctions : \E dm \in DataModules : \E seed \in 0..1 :
       \E fit \in {"none"} \cup Raisable : \E save \in BOOLEAN :
          run' = [run EXCEPT
                     !.pc = "fit", !.fn = fn, !.dm = dm, !.seed = seed,
                     !.fit = fit, !.save_checkpoints = save]
    /\ calls' = calls + 1
    /\ UNCHANGED Others

\* lines 234-243: trainer.fit inside the try statement
Fit ==
    /\ run.pc = "fit"
    /\ run' = IF run.fit = "none" \/ AbsorbedByFit(run.fit)
              THEN [run EXCEPT !.pc = "load"]
              ELSE [run EXCEPT !.pc = "raised", !.error = run.fit]
    /\ UNCHANGED calls
    /\ UNCHANGED Others

\* lines 245-250: the best checkpoint is loaded; checkpoint_callback is
\* bound only when save_checkpoints is set (lines 217-218)
LoadBest ==
    /\ run.pc = "load"
    /\ run' = IF run.save_checkpoints
              THEN [run EXCEPT !.pc = "metrics", !.split = 1, !.batch = 0,
                               !.acc = EmptyDict, !.batches = <<>>]
              ELSE [run EXCEPT !.pc = "raised", !.error = "UnboundLocalError"]
    /\ UNCHANGED calls
    /\ UNCHANGED Others

\* lines 251-257, 263-270, 280-287, 297-306: one batch of the running loop
MetricsBatch ==
    /\ run.pc = "metrics"
    /\ HasDataset(run.dm, Splits[run.split])
    /\ run.batch < NumBatches(run.dm, Splits[run.split])
    /\ \E m \in {BatchLoss(run.seed, run.batch)} :
          LET split == Splits[run.split]
              loss_d == LossDict(split, m)
              n == BatchSizes(run.dm.len[split], run.dm.batch_size)[run.batch + 1]
          IN  run' = [run EXCEPT
                         !.batch = @ + 1,
                         !.acc = Accumulate(@, loss_d, Weight(run.dm, split)),
                         !.batches = Append(@, [n |-> n, loss_d |-> loss_d])]
    /\ UNCHANGED calls
    /\ UNCHANGED Others

\* lines 258, 272-275, 289-292, 310-313: the loop is over, the metrics are
\* divided and logged; a data set that is None is passed over.  After the
\* last data set, line 314: wandb.finish()
MetricsLog ==
    /\ run.pc = "metrics"
    /\ HasDataset(run.dm, Splits[run.split]) =>
          run.batch = NumBatches(run.dm, Splits[run.split])
    /\ LET split == Splits[run.split]
           logged == IF HasDataset(run.dm, split)
                     THEN Append(run.logged,
                                 [split |-> split,
                                  metrics |-> Fractions(run.acc,
                                                        Divisor(run.dm, split)),
                                  batches |-> run.batches])
                     ELSE run.logged
       IN  run' = IF run.split < Len(Splits)
                  THEN [run EXCEPT !.split = @ + 1, !.batch = 0,
                                   !.acc = EmptyDict, !.batches = <<>>,
                                   !.logged = logged]
                  ELSE [run EXCEPT !.pc = "finish", !.logged = logged,
                                   !.finished = @ + 1]
    /\ UNCHANGED calls
    /\ UNCHANGED Others

\* line 316: return model
Finish ==
    /\ run.pc = "finish"
    /\ run' = [run EXCEPT !.pc = "returned"]
    /\ UNCHANGED calls
    /\ UNCHANGED Others

\* lines 559-574: the training function has returned or raised inside the
\* try statement of train_one_model; `model` is bound by line 559 only
JobEnd ==
    /\ run.job.pc = "training"
    /\ run.pc \in {"returned", "raised"}
    /\ run' = IF run.pc = "returned"
              THEN [run EXCEPT !.job.pc = "returned"]
              ELSE IF IsException(run.error)
              THEN [run EXCEPT !.job.printed = Append(@, run.error),
                               !.finished = @ + 1,
                               !.job.pc = "raised",
                               !.job.error = "UnboundLocalError"]
              ELSE [run EXCEPT !.job.pc = "raised", !.job.error = run.error]
    /\ UNCHANGED calls
    /\ UNCHANGED Others

NextTrain ==
    \/ JobCall
    \/ TrainCall
    \/ Fit
    \/ LoadBest
    \/ MetricsBatch
    \/ MetricsLog
    \/ Finish
    \/ JobEnd

InitTrain == InitFrom({"train"}, {Config(1, FALSE, FALSE, FALSE, FALSE)})

SpecTrain == InitTrain /\ [][NextTrain]_vars

----------------------------------------------------------------------------
(* discretized_graph.DiscreteGraphModel.__init__ *)

\* lines 15-45: the arguments and their defaults
DgmInit ==
    /\ dgm.pc = "idle"
    /\ \E a \in DgmArgs :
          dgm' = [NoDgm EXCEPT
                     !.pc = "mpnn", !.args = a,
                     !.mlp_layers = IF a.mlp_layers.isNone
                                    THEN DefaultMlpLayers
                                    ELSE a.mlp_layers.layers]
    /\ UNCHANGED <<cfg, params, training, bn, pool, pc, data, inp, x_dict,
                   nonfinite, cond, round, out, outNonfinite, last, calls,
                   head, aug, proc, run>>

\* lines 47-55
DgmMpnn ==
    /\ dgm.pc = "mpnn"
    /\ dgm' = [dgm EXCEPT
                  !.pc = "mlp",
                  !.mpnn_modules = MpnnModules(InputChannels, dgm.args.mpnn_channels)]
    /\ UNCHANGED <<cfg, params, training, bn, pool, pc, data, inp, x_dict,
                   nonfinite, cond, round, out, outNonfinite, last, calls,
                   head, aug, proc, run>>

\* lines 57-78
DgmMlp ==
    /\ dgm.pc = "mlp"
    /\ dgm' = [dgm EXCEPT
                  !.pc = "readout",
                  !.mlp_modules =
                      MlpModules(MlpSizes(dgm.args.mpnn_channels, dgm.mlp_layers,
                                          dgm.args.n_output_nodes),
                                 dgm.args.activation_module)]
    /\ UNCHANGED <<cfg, params, training, bn, pool, pc, data, inp, x_dict,
                   nonfinite, cond, round, out, outNonfinite, last, calls,
                   head, aug, proc, run>>

\* lines 80-102
DgmReadout ==
    /\ dgm.pc = "readout"
    /\ dgm' = [dgm EXCEPT
                  !.pc = "sequential",
                  !.readout = << ReadoutModule(dgm.args.readout_operation,
                                          Last(dgm.args.mpnn_channels)) >>]
    /\ UNCHANGED <<cfg, params, training, bn, pool, pc, data, inp, x_dict,
                   nonfinite, cond, round, out, outNonfinite, last, calls,
                   head, aug, proc, run>>

\* lines 104-109
DgmSequential ==
    /\ dgm.pc = "sequential"
    /\ dgm' = [dgm EXCEPT
                  !.pc = "built",
                  !.nn = dgm.mpnn_modules \o dgm.readout \o dgm.mlp_modules]
    /\ UNCHANGED <<cfg, params, training, bn, pool, pc, data, inp, x_dict,
                   nonfinite, cond, round, out, outNonfinite, last, calls,
                   head, aug, proc, run>>

NextDgm ==
    \/ DgmInit
    \/ DgmMpnn
    \/ DgmMlp
    \/ DgmReadout
    \/ DgmSequential

InitDgm == InitFrom({"discrete"}, {Config(1, FALSE, FALSE, FALSE, FALSE)})

SpecDgm == InitDgm /\ [][NextDgm]_vars

----------------------------------------------------------------------------
(* AugmentHeteroDCVModel.predict_step and _evaluate_step *)

\* lines 488 and 508, get_inputs up to line 474: the two dictionaries are
\* built, zip makes its two key iterators
AugGetInputs ==
    /\ pc = "idle"
    /\ aug.pc \in {"idle", "returned", "raised"}
    /\ calls < MaxCalls
    /\ \E method \in {"predict_step", "_evaluate_step"} : \E d \in AugPool :
          aug' = [NoAug EXCEPT !.pc = "rename", !.method = method, !.data = d,
                               !.new_keys = d.keys,
                               !.table = SubdividedEdges(d),
                               !.used = Used(SubdividedEdges(d))]
    /\ calls' = calls + 1
    /\ UNCHANGED <<cfg, params, training, bn, pool, pc, data, inp, x_dict,
                   nonfinite, cond, round, out, outNonfinite, last, head, proc, run, dgm>>

\* lines 476-479: one step of the loop.  zip asks the keys of
\* edge_index_dict first and stops when they are used up; the iterator over
\* the subdivided keys reads the dict that the loop body changes.
AugRename ==
    /\ aug.pc = "rename"
    /\ IF aug.i = Len(aug.new_keys) \/
          (aug.used = Used(aug.table) /\ NextEntries(aug.table, aug.pos) = {})
       THEN aug' = [aug EXCEPT
                       !.pc = "inputs",
                       !.input_dict = InputDict(aug.data),
                       !.augmented_input_dict =
                           AugmentedInputDict(aug.data, aug.table)]
       ELSE IF aug.used # Used(aug.table)
       THEN aug' = [aug EXCEPT !.pc = "raised", !.error = "RuntimeError"]
       ELSE LET j == NextPos(aug.table, aug.pos)
                new_key == aug.new_keys[aug.i + 1]
                old_key == aug.table[j].key
                popped == Pop(aug.table, old_key)
            IN  \E rebuild \in BOOLEAN :
                   /\ rebuild => (~aug.rebuilt /\ Find(popped, new_key) = {})
                   /\ aug' = [aug EXCEPT
                                 !.i = @ + 1,
                                 !.pos = j,
                                 !.rebuilt = @ \/ rebuild,
                                 !.table = SetItem(popped, new_key,
                                                   aug.table[j].value, rebuild)]
    /\ UNCHANGED <<cfg, params, training, bn, pool, pc, data, inp, x_dict,
                   nonfinite, cond, round, out, outNonfinite, last, calls,
                   head, proc, run, dgm>>

\* lines 489 and 508: self(...) binds the arguments of forward; lines
\* 399-432 up to the first call of the representation module
AugSelfCall ==
    /\ aug.pc = "inputs"
    /\ LET args == SelfArgs(aug.method,
                            << aug.input_dict, aug.augmented_input_dict >>)
       IN  IF MissingArgument(AugForwardParams, args)
           THEN /\ aug' = [aug EXCEPT !.pc = "raised", !.error = "TypeError"]
                /\ UNCHANGED <<pc, inp, x_dict, nonfinite, cond, round, out,
                               outNonfinite>>
           ELSE /\ aug' = [aug EXCEPT !.pc = "first"]
                /\ inp' = FirstArgs(args[1], args[2])
                /\ pc' = "dopant"
                /\ x_dict' = EmptyDict
                /\ nonfinite' = EmptyDict
                /\ cond' = [interaction |-> NoCond, intraaction |-> NoCond]
                /\ round' = 0
                /\ out' = NoOut
                /\ outNonfinite' = {}
    /\ UNCHANGED <<cfg, params, training, bn, pool, data, last, calls, head,
                   proc, run, dgm>>

\* lines 433-441: the readout of the first representation, then the second
\* call of the representation module
AugReadoutFirst ==
    /\ aug.pc = "first"
    /\ pc = "done"
    /\ \E mask \in SUBSET (1..ReadoutLayers[1]) :
          /\ training \/ mask = {}
          /\ aug' = [aug EXCEPT
                        !.pc = "second",
                        !.out = ReadoutRows(params, head.kwargs, out,
                                            training, mask)]
    /\ inp' = SecondArgs(aug.input_dict, aug.augmented_input_dict)
    /\ pc' = "dopant"
    /\ x_dict' = EmptyDict
    /\ nonfinite' = EmptyDict
    /\ cond' = [interaction |-> NoCond, intraaction |-> NoCond]
    /\ round' = 0
    /\ out' = NoOut
    /\ outNonfinite' = {}
    /\ UNCHANGED <<cfg, params, training, bn, pool, data, last, calls, head,
                   proc, run, dgm>>

\* lines 442-444 and 490-493: the second readout; forward returns the two
\* outputs and _evaluate_step their distances
AugReadoutSecond ==
    /\ aug.pc = "second"
    /\ pc = "done"
    /\ \E mask \in SUBSET (1..ReadoutLayers[1]) :
          /\ training \/ mask = {}
          /\ \E y \in {ReadoutRows(params, head.kwargs, out, training, mask)} :
                aug' = [aug EXCEPT
                           !.pc = "returned",
                           !.subdivision_out = y,
                           !.loss = EuclideanDistances(aug.out, y)]
    /\ pc' = "idle"
    /\ x_dict' = EmptyDict
    /\ nonfinite' = EmptyDict
    /\ cond' = [interaction |-> NoCond, intraaction |-> NoCond]
    /\ round' = 0
    /\ UNCHANGED <<cfg, params, training, bn, pool, data, inp, out,
                   outNonfinite, last, calls, head, proc, run, dgm>>

\* an exception of the representation module leaves forward and its caller
AugRaise ==
    /\ aug.pc \in {"first", "second"}
    /\ pc = "raised"
    /\ aug' = [aug EXCEPT !.pc = "raised", !.error = "forward"]
    /\ pc' = "idle"
    /\ cond' = [interaction |-> NoCond, intraaction |-> NoCond]
    /\ round' = 0
    /\ UNCHANGED <<cfg, params, training, bn, pool, data, inp, x_dict,
                   nonfinite, out, outNonfinite, last, calls, head, proc, run, dgm>>

NextAugment ==
    \/ SetTraining
    \/ AugGetInputs
    \/ AugRename
    \/ AugSelfCall
    \/ DopantStep
    \/ InteractionStep
    \/ IntraactionStep
    \/ MessagePassing
    \/ Aggregate
    \/ AugReadoutFirst
    \/ AugReadoutSecond
    \/ AugRaise

InitAugment == InitFrom({"augment"}, ModelConfigs)

SpecAugment == InitAugment /\ [][NextAugment]_vars

----------------------------------------------------------------------------
(* Properties, continued *)

\* the sum of column c of the rows of X whose number is in rows
RECURSIVE ColumnSum(_, _, _)
ColumnSum(X, rows, c) ==
    IF rows = {} THEN 0
    ELSE LET r == CHOOSE q \in rows : TRUE
         IN  X[r][c] + ColumnSum(X, rows \ {r}, c)

PairBlocks(inverse, c0, c1, integ) ==
    LET inv0 == 10 \div (c0 + ConcEps)
        inv1 == 10 \div (c1 + ConcEps)
        scaled(f) == [sg \in 1..NSigma |-> f * integ[sg]]
    IN  IF inverse
        THEN scaled(c0 * c1) \o scaled(c0 * inv1)
               \o scaled(inv0 * c1) \o scaled(inv0 * inv1)
        ELSE scaled(c0 * c1)

PairWidth == IF cfg.use_inverse_concentration THEN 4 * NSigma ELSE NSigma

(* C12: the conditioning vector of every interaction and intraaction node  *)
(* has the width of the branch's batch norm, nsigma without and 4 * nsigma *)
(* with use_inverse_concentration, and before the norms it is the blocks   *)
(* c0*c1, c0*inv1, inv0*c1, inv0*inv1 times the integrated interaction.    *)
C12_CondWidth ==
    /\ pc \in {"intraaction", "conv", "done"} =>
          /\ Len(bn.interaction_norm.running_mean) = PairWidth
          /\ Len(cond.interaction.v) = Len(inp.interaction_dopant_indices)
          /\ \A e \in 1..Len(inp.interaction_dopant_indices) :
                /\ Len(cond.interaction.v[e]) = PairWidth
                /\ InteractionConc(cfg, inp, e) =
                      PairBlocks(cfg.use_inverse_concentration,
                          inp.dopant_concs[inp.interaction_dopant_indices[e][1] + 1],
                          inp.dopant_concs[inp.interaction_dopant_indices[e][2] + 1],
                          IntegratedInteraction(inp, e))
    /\ pc \in {"conv", "done"} =>
          /\ Len(bn.intraaction_norm.running_mean) = PairWidth
          /\ Len(cond.intraaction.v) = Len(inp.intraaction_dopant_indices)
          /\ \A e \in 1..Len(inp.intraaction_dopant_indices) :
                /\ Len(cond.intraaction.v[e]) = PairWidth
                /\ IntraactionConc(cfg, inp, e) =
                      PairBlocks(cfg.use_inverse_concentration,
                          inp.dopant_concs[inp.intraaction_dopant_indices[e][1] + 1],
                          inp.dopant_concs[inp.intraaction_dopant_indices[e][2] + 1],
                          IntegratedIntraaction(inp, e))

C12_Witness ==
    /\ pc = "done"
    /\ cfg.use_inverse_concentration
    /\ cfg.normalize_interaction_by_volume
    /\ ~cfg.interaction_embedding
    /\ Len(cond.interaction.v) >= 2
    /\ Len(cond.intraaction.v) >= 1
    /\ \A e \in 1..Len(cond.interaction.v) : Len(cond.interaction.v[e]) = 4 * NSigma

\* the volume of the sphere of radius r, 4/3 * pi * r^3, in units of pi/3
Sphere(r) == 4 * (r ^ 3)

NonDecreasing(radii) == \A i, j \in 1..Len(radii) : i <= j => radii[i] <= radii[j]

(* C13: in forward and in process_doc the volume of a shell is the volume  *)
(* of the sphere of its outer radius minus that of its inner radius, the   *)
(* first inner radius is 0, the volume is not negative when the radii do   *)
(* not decrease, and the volumes up to shell k add up to the sphere of     *)
(* radius r_k.                                                             *)
C13_ShellVolume ==
    /\ pc # "idle" =>
          \A volume \in {Volume(inp)} :
             /\ Len(volume) = Len(inp.radii) - 1
             /\ \A k \in 1..Len(volume) :
                   /\ volume[k] = Sphere(inp.radii[k + 1]) - Sphere(inp.radii[k])
                   /\ NonDecreasing(inp.radii) => volume[k] >= 0
                   /\ SumSeq(SubSeq(volume, 1, k)) = Sphere(inp.radii[k + 1])
             /\ inp.radii[1] = 0
    /\ \A k \in 1..Len(proc.shells) :
          LET shell == proc.shells[k]
              inner == IF k = 1 THEN 0 ELSE proc.doc.constraints[k - 1]
          IN  /\ shell.radius = proc.doc.constraints[k]
              /\ shell.volume = Sphere(shell.radius) - Sphere(inner)
              /\ NonDecreasing(proc.doc.constraints) => shell.volume >= 0
              /\ SumSeq([j \in 1..k |-> proc.shells[j].volume]) = Sphere(shell.radius)
              /\ \A i \in 1..Len(PossibleElements) :
                    proc.volumes[(k - 1) * Len(PossibleElements) + i].num = shell.volume

C13_Witness ==
    /\ pc = "done"
    /\ Len(inp.radii) = 4
    /\ proc.pc = "done"
    /\ Len(proc.shells) = MaxLayers
    /\ proc.shells[2].volume = 0
    /\ proc.shells[3].volume > 0

\* what get_representation returns for the data of the running call,
\* line 341
GetRepresentation == Forward(Self, BindKeywords(RepresentationParams, GetInputs(data)))

(* C14: forward returns the readout of what get_representation returns on  *)
(* the same data, and raises when get_representation raises;               *)
(* get_representation returns the pooled representation itself.            *)
C14_ForwardIsReadout ==
    /\ pc = "readout" =>
          \A rep \in {GetRepresentation} :
             /\ ~rep.raised
             /\ head.y_hat = [g \in 1..Len(rep.out) |->
                                Readout(params, head.kwargs, rep.out[g],
                                        training, head.mask)]
    /\ pc = "raised" => GetRepresentation.raised
    /\ (pc = "done" /\ head.method = "get_representation") =>
          /\ out = GetRepresentation.out
          /\ head.y_hat = NoOut

C14_Witness ==
    /\ pc = "readout"
    /\ training
    /\ head.mask # {}
    /\ Len(inp.interaction_dopant_indices) >= 2
    /\ Len(head.y_hat) = 1
    /\ head.y_hat # out

(* C15, as claimed: forward returns, per graph, a vector as long as the    *)
(* number of spectrum bins the model was configured with.                  *)
C15_SpectrumLength ==
    (pc = "readout" /\ "n_output_nodes" \in DOMAIN head.given) =>
        \A g \in 1..Len(head.y_hat) :
            Len(head.y_hat[g]) = head.given["n_output_nodes"]

(* C15, amended: forward returns one row per graph and every row holds one *)
(* value, whatever n_output_nodes was given and whatever the size of the   *)
(* graphs.                                                                 *)
C15_OneValuePerGraph ==
    pc = "readout" =>
        /\ Len(head.y_hat) = (IF data.batched THEN Len(data.graphs) ELSE 1)
        /\ \A g \in 1..Len(head.y_hat) : Len(head.y_hat[g]) = 1

C15_Witness ==
    /\ pc = "readout"
    /\ "n_output_nodes" \in DOMAIN head.given
    /\ head.given["n_output_nodes"] = 3
    /\ data.batched
    /\ Len(head.y_hat) = 2

\* the arguments with the intraaction nodes in the place of the interaction
\* nodes, and the module with the buffers of intraaction_norm in the place
\* of those of interaction_norm
AsInteraction(a) ==
    [a EXCEPT !.interaction_type_indices = a.intraaction_type_indices,
              !.interaction_types = a.intraaction_types,
              !.interaction_dopant_indices = a.intraaction_dopant_indices]

WithIntraactionNorm(m) == [m EXCEPT !.bn.interaction_norm = m.bn.intraaction_norm]

\* the layers of the two branches (embedder, batch norm, FiLM generator)
\* hold the same weights
SameBranchParameters ==
    \A t \in {12, 14, 15, 16, 17, 18} :
        \A o \in 1..(2 * EmbedDim) :
            /\ B(params, t, o) = B(params, t + 10, o)
            /\ BNWeight(params, t, o) = BNWeight(params, t + 10, o)
            /\ \A i \in 1..(4 * NSigma) : W(params, t, o, i) = W(params, t + 10, o, i)

(* C16: with the same parameter values, the intraaction branch computes on *)
(* the intraaction nodes what the interaction branch computes when it is   *)
(* given those nodes and the buffers of intraaction_norm: the same         *)
(* conditioning tensor and the same node features, for every combination   *)
(* of the flags.                                                           *)
C16_SameBranch ==
    /\ SameBranchParameters
    /\ (pc = "conv" /\ round = 0) =>
          \A m \in {WithIntraactionNorm(Self)} : \A a \in {AsInteraction(inp)} :
             /\ cond.intraaction.v = InteractionCond(m, a)
             /\ cond.intraaction.nonfinite = InteractionCondNonfinite(m, a)
             /\ x_dict["intraaction"] = InteractionAttr(m, a)

C16_Witness ==
    /\ pc = "conv"
    /\ round = 0
    /\ ~training
    /\ cfg.use_inverse_concentration
    /\ ~cfg.interaction_embedding
    /\ bn.intraaction_norm # bn.interaction_norm
    /\ Len(x_dict["intraaction"]) >= 1
    /\ Len(x_dict["interaction"]) >= 1
    /\ cond.intraaction.v # <<>>

(* C17: a HeteroDCVModel constructed with an n_input_nodes keyword warns   *)
(* once, removes the key before the base class and the representation      *)
(* module see the keywords, and initialises the base class exactly once    *)
(* with n_input_nodes = embed_dim and no duplicate keyword; without the    *)
(* keyword there is no warning.                                            *)
C17_InputNodesIgnored ==
    /\ head.ipc # "raised"
    /\ head.ipc # "new" =>
          /\ head.warnings = (IF "n_input_nodes" \in DOMAIN head.given THEN 1 ELSE 0)
          /\ "n_input_nodes" \notin DOMAIN head.kwargs
          /\ \A k \in DOMAIN head.given \ {"n_input_nodes"} :
                k \in DOMAIN head.kwargs /\ head.kwargs[k] = head.given[k]
    /\ head.ipc \in {"new", "super"} => head.base = <<>>
    /\ head.ipc \in {"modules", "built"} =>
          /\ Len(head.base) = 1
          /\ head.base[1]["n_input_nodes"] = EmbedDim
          /\ DOMAIN head.base[1] = {"n_input_nodes"} \cup DOMAIN head.given
    /\ head.ipc = "built" => "n_input_nodes" \notin DOMAIN head.module_kwargs

C17_Witness ==
    /\ head.ipc = "built"
    /\ "n_input_nodes" \in DOMAIN head.given
    /\ head.given["n_input_nodes"] # EmbedDim
    /\ head.warnings = 1
    /\ Len(head.base) = 1
    /\ head.base[1]["n_input_nodes"] = EmbedDim

(* C18: after get_inputs the augmented edge_index_dict has exactly the     *)
(* keys of data.edge_index_dict and holds, under the i-th of them, the     *)
(* edge list that the i-th key of subdivided_edge_index_dict held; the     *)
(* loop does not raise.                                                    *)
C18_KeysRenamed ==
    /\ aug.error # "RuntimeError"
    /\ aug.pc \in {"inputs", "first", "second", "returned"} =>
          /\ DOMAIN aug.augmented_input_dict.edge_index_dict = Range(aug.data.keys)
          /\ \A i \in 1..Len(aug.data.keys) :
                aug.augmented_input_dict.edge_index_dict[aug.data.keys[i]]
                    = SubdividedEdges(aug.data)[i].value

(* C19: each of the two calls of the representation module in forward      *)
(* receives the batch_dict of its own input dictionary.                    *)
C19_OwnMembership ==
    /\ aug.pc = "first" => inp.batch_dict = aug.input_dict.batch_dict
    /\ aug.pc = "second" => inp.batch_dict = aug.augmented_input_dict.batch_dict

(* C20: predict_step, once get_inputs has returned, calls forward with the *)
(* two dictionaries and does not raise on the call itself.                 *)
C20_PredictReturns ==
    aug.method = "predict_step" => aug.error # "TypeError"

(* C21: the batch size that _step determines and passes to log_dict is the *)
(* number of graphs of the batch: 1 without a batch_dict, else the number  *)
(* of graphs the batch holds.                                              *)
C21_BatchSizeIsGraphs ==
    (head.method = "_step" /\ head.stepped) =>
        /\ head.batch_size = Len(data.graphs)
        /\ \A i \in 1..Len(head.logged) :
              head.logged[i].batch_size = Len(data.graphs)

(* C22: _step returns the loss under '<prefix>_loss' and, on training data *)
(* (prefix train or train_eval), nothing else; the additional metrics are  *)
(* for the validation and test prefixes only.                              *)
C22_TrainLossOnly ==
    (head.method = "_step" /\ head.stepped) =>
        /\ << head.prefix, "loss" >> \in DOMAIN head.metric_dict
        /\ head.metric_dict[<< head.prefix, "loss" >>] = head.loss
        /\ head.prefix \in {"train", "train_eval"} =>
              DOMAIN head.metric_dict = {<< head.prefix, "loss" >>}
        /\ head.prefix \in {"val", "test", "iid_test"} =>
              DOMAIN head.metric_dict =
                  {<< head.prefix, m >> : m \in {"loss"} \cup AdditionalMetrics}

\* the sum over the batches of (batch metric times samples in the batch)
RECURSIVE SampleSum(_, _)
SampleSum(batches, k) ==
    IF batches = <<>> THEN 0
    ELSE Head(batches).loss_d[k] * Head(batches).n + SampleSum(Tail(batches), k)

RECURSIVE Samples(_)
Samples(batches) ==
    IF batches = <<>> THEN 0 ELSE Head(batches).n + Samples(Tail(batches))

(* C23: every validation, test and iid-test metric that is logged equals   *)
(* the per-sample mean over the data set: the sum over the batches of the  *)
(* batch metric times the number of samples of the batch, divided by the   *)
(* length of the data set.                                                 *)
C23_PerSampleMean ==
    \A i \in 1..Len(run.logged) :
        run.logged[i].split # "train_eval" =>
            \A k \in DOMAIN run.logged[i].metrics :
                /\ run.logged[i].metrics[k].den = Samples(run.logged[i].batches)
                /\ run.logged[i].metrics[k].num = SampleSum(run.logged[i].batches, k)

(* C24: a KeyboardInterrupt raised by trainer.fit is absorbed and the      *)
(* function goes on to load the checkpoint and log; any other exception    *)
(* of trainer.fit leaves the function with nothing logged.                 *)
C24_InterruptAbsorbed ==
    /\ run.fit = "KeyboardInterrupt" =>
          ~(run.pc = "raised" /\ run.error = "KeyboardInterrupt")
    /\ (run.fit \in Raisable \ {"KeyboardInterrupt"} /\ run.pc \notin {"idle", "fit"}) =>
          run.pc = "raised" /\ run.error = run.fit /\ run.logged = <<>>

(* C25: when the training function raises, train_one_model prints the      *)
(* exception, calls wandb.finish() and returns without raising.            *)
C25_JobReturns ==
    (run.pc = "raised" /\ run.job.pc \notin {"idle", "training"}) =>
        /\ run.job.pc = "returned"
        /\ run.job.printed = << run.error >>
        /\ run.finished = 1

\* the modules of self.nn after the readout, and the linear layers of them
AfterReadout == SubSeq(dgm.nn, Len(dgm.mpnn_modules) + 2, Len(dgm.nn))

LinearLayers(modules) == SelectSeq(modules, LAMBDA m : m.kind = "Linear")

(* C26: for every readout_operation the readout of DiscreteGraphModel      *)
(* returns vectors as wide as the input of the first linear layer of the   *)
(* MLP, 2 * mpnn_channels[-1], and the MLP ends with a linear layer of     *)
(* width n_output_nodes.                                                   *)
C26_ReadoutFitsMlp ==
    dgm.pc = "built" =>
        /\ LinearLayers(AfterReadout)[1].in = 2 * Last(dgm.args.mpnn_channels)
        /\ dgm.readout[1].out = LinearLayers(AfterReadout)[1].in
        /\ Last(dgm.nn).kind = "Linear"
        /\ Last(dgm.nn).out = dgm.args.n_output_nodes

=============================================================================
